---------------------------- MODULE Spec2Model ----------------------------
(***************************************************************************)
(* A model of the medical-report pipeline of DecenRep (src/pipeline.py,    *)
(* src/ocr.py, src/certificate.py).                                        *)
(*                                                                         *)
(* A Python str is a sequence of one-character strings; a non-ASCII        *)
(* character is written "U+XXXX".  A Python dict is a function whose       *)
(* DOMAIN is the set of keys present.                                      *)
(***************************************************************************)
EXTENDS Integers, Sequences, FiniteSets, TLC

(***************************************************************************)
(* Program constants.                                                      *)
(***************************************************************************)
\* pipeline.py:254 and :336, `len(text.strip()) < 20`
MinTextLen == 20
\* pipeline.py:274, `len(llm_summary) > 100`
MinSummaryLen == 100
\* pipeline.py:272, `cleaned_text[:8000]`
MaxPromptLen == 8000
\* pipeline.py:37, `len(current_sentence.strip()) > 10`
MinSentenceLen == 10
\* pipeline.py:54, `len(clean_sentence) < 15`
MinCompareLen == 15
\* pipeline.py:66, `overlap > 0.8`, as the fraction OverlapNum / OverlapDen
OverlapNum == 4
OverlapDen == 5
\* certificate.py:41, `[A-Za-z\s\.]{2,30}`
MinNameLen == 2
MaxNameLen == 30
\* certificate.py:95, `.split()[:2]`
MaxInitials == 2
\* certificate.py:31-32: the number of codes kept of each kind
MaxCodes == 5
\* certificate.py:25: the number of digits of a CPT code
CptLen == 5

(***************************************************************************)
(* Bounds of the model.                                                    *)
(***************************************************************************)
\* process_report / explain_text calls started in one behaviour
MaxRuns == 1
\* pieces of text concatenated into one input of remove_duplicate_content
MaxPieces == 3
\* sections and paragraphs concatenated into one input of ensure_proper_ending
MaxParagraphs == 3
\* fields concatenated into one input text of generate_certificate
MaxFields == 3
\* process_report calls started in one behaviour of the store
MaxStoreRuns == 2
\* pairs of process_report runs on identical inputs in one behaviour
MaxPairs == 1
\* explain_text calls started in one behaviour of SpecExplain
MaxExplainRuns == 1
\* uploads handled in one behaviour of SpecAttach
MaxUploads == 2
\* pieces of the text given to extract_medical_codes
MaxCodePieces == 3
\* process_report calls started in one behaviour of SpecRace
MaxRaceRuns == 2

(***************************************************************************)
(* Python values.                                                          *)
(***************************************************************************)
\* None where a str is expected: no str is this one-element sequence,
\* since every character of a str is a one-character string.
NoneText == << "None" >>
\* None where an identifier or a message (a TLA+ string) is expected
NoneStr == "None"

Min(a, b) == IF a <= b THEN a ELSE b
Range(s) == { s[i] : i \in DOMAIN s }
Last(s) == s[Len(s)]
\* s[:n]
Take(s, n) == SubSeq(s, 1, Min(n, Len(s)))
\* s[i:] with i counted from 1
From(s, i) == SubSeq(s, i, Len(s))
\* `if text:` for a str or None
Truthy(s) == s # NoneText /\ s # << >>

\* d[k] = v on a dict
Put(d, k, v) == [ x \in (DOMAIN d) \cup {k} |-> IF x = k THEN v ELSE d[x] ]
\* del d[k]
Del(d, k) == [ x \in (DOMAIN d) \ {k} |-> d[x] ]
EmptyDict == [ x \in {} |-> NoneStr ]

(***************************************************************************)
(* Characters: str.strip, str.lower, str.split and the regex class \s.    *)
(***************************************************************************)
WhitespaceChars == { " ", "\n", "\t", "\r" }
IsSpace(c) == c \in WhitespaceChars

UpperCase ==
  << "A","B","C","D","E","F","G","H","I","J","K","L","M",
     "N","O","P","Q","R","S","T","U","V","W","X","Y","Z" >>
LowerCase ==
  << "a","b","c","d","e","f","g","h","i","j","k","l","m",
     "n","o","p","q","r","s","t","u","v","w","x","y","z" >>
Digit == << "0","1","2","3","4","5","6","7","8","9" >>

\* the non-ASCII characters are the ones written "U+XXXX"
IsAscii(c) == c \notin { "U+00E9", "U+2014" }

\* c.lower()
Lower(c) ==
  IF \E i \in 1..26 : UpperCase[i] = c
    THEN LowerCase[CHOOSE i \in 1..26 : UpperCase[i] = c]
    ELSE c
LowerText(s) == [ i \in 1..Len(s) |-> Lower(s[i]) ]

\* the least element of a non-empty set of integers
MinOf(S) == CHOOSE k \in S : \A m \in S : k <= m
MaxOf(S) == CHOOSE k \in S : \A m \in S : k >= m

\* the index of the first character at or after i that is no whitespace,
\* Len(s) + 1 when there is none
SkipSpace(s, i) ==
  MinOf({ k \in i..(Len(s) + 1) : k > Len(s) \/ ~IsSpace(s[k]) })

\* the index of the last character that is no whitespace, 0 when there is none
LastNonSpace(s) ==
  MaxOf({ k \in 0..Len(s) : k = 0 \/ ~IsSpace(s[k]) })

\* s.strip()
Strip(s) ==
  LET a == SkipSpace(s, 1)
      b == LastNonSpace(s)
  IN  IF a > b THEN << >> ELSE SubSeq(s, a, b)

\* the index of the first c at or after i, 0 when there is none
IndexOf(s, c, i) ==
  LET at == { k \in i..Len(s) : s[k] = c }
  IN  IF at = {} THEN 0 ELSE MinOf(at)

\* pat occurs in s at index i
MatchAt(s, i, pat) ==
  /\ i >= 1
  /\ i + Len(pat) - 1 <= Len(s)
  /\ \A k \in 1..Len(pat) : s[i + k - 1] = pat[k]

\* pat (given in lower case) occurs in s at index i, ignoring case
MatchAtCI(s, i, pat) ==
  /\ i >= 1
  /\ i + Len(pat) - 1 <= Len(s)
  /\ \A k \in 1..Len(pat) : Lower(s[i + k - 1]) = pat[k]

\* the characters of s at the indices in keep, in order, each mapped by
\* the function out
Kept(s, keep, out) ==
  LET marked == [ i \in 1..Len(s) |-> << out[i], i \in keep >> ]
      IsKept(m) == m[2]
      chosen == SelectSeq(marked, IsKept)
  IN  [ i \in 1..Len(chosen) |-> chosen[i][1] ]

\* re.sub(r'\s+', ' ', s): every maximal run of whitespace becomes one space
CollapseWhitespace(s) ==
  Kept(s,
       { i \in 1..Len(s) : ~IsSpace(s[i]) \/ i = 1 \/ ~IsSpace(s[i - 1]) },
       [ i \in 1..Len(s) |-> IF IsSpace(s[i]) THEN " " ELSE s[i] ])

\* re.sub(r'[^\x00-\x7F]+', ' ', s): every maximal run of non-ASCII
\* characters becomes one space
ReplaceNonAscii(s) ==
  Kept(s,
       { i \in 1..Len(s) : IsAscii(s[i]) \/ i = 1 \/ IsAscii(s[i - 1]) },
       [ i \in 1..Len(s) |-> IF IsAscii(s[i]) THEN s[i] ELSE " " ])

\* `<[^>]+>` at index i: the index of the closing '>', 0 when the pattern
\* does not match at i ('<', one or more characters that are not '>', '>')
TagClose(s, i) ==
  IF i + 1 <= Len(s) /\ s[i] = "<" /\ s[i + 1] # ">"
    THEN IndexOf(s, ">", i + 2)
    ELSE 0

\* re.sub(r'<[^>]+>', '', s) from index i on: the leftmost tag at or after
\* i is dropped and the scan resumes behind it
RECURSIVE RemoveTags(_, _)
RemoveTags(s, i) ==
  LET opens == { j \in i..Len(s) : TagClose(s, j) # 0 }
  IN  IF opens = {} THEN SubSeq(s, i, Len(s))
      ELSE SubSeq(s, i, MinOf(opens) - 1)
             \o RemoveTags(s, TagClose(s, MinOf(opens)) + 1)

\* set(s.split()): the set of the maximal runs of characters that are no
\* whitespace
WordSet(s) ==
  { SubSeq(s, a, MinOf({ k \in a..(Len(s) + 1) : k > Len(s) \/ IsSpace(s[k]) }) - 1) :
      a \in { i \in 1..Len(s) : ~IsSpace(s[i]) /\ (i = 1 \/ IsSpace(s[i - 1])) } }

\* ' '.join(parts)
RECURSIVE JoinSpace(_, _)
JoinSpace(parts, i) ==
  IF i > Len(parts) THEN << >>
  ELSE IF i = Len(parts) THEN parts[i]
  ELSE parts[i] \o << " " >> \o JoinSpace(parts, i + 1)

\* str(n) for n >= 0
RECURSIVE Decimal(_)
Decimal(n) ==
  IF n < 10 THEN << Digit[n + 1] >>
  ELSE Append(Decimal(n \div 10), Digit[(n % 10) + 1])

(***************************************************************************)
(* remove_duplicate_content (pipeline.py:24-83).                           *)
(***************************************************************************)
SentenceEnd == { ".", "!", "?" }

\* Step 1 (lines 32-42): the sentences of text[i..].  The sentence that
\* starts at i ends at the first terminal punctuation mark at which the
\* characters read so far, stripped, are longer than MinSentenceLen.
RECURSIVE SplitSentences(_, _)
SplitSentences(text, i) ==
  LET ends == { k \in i..Len(text) :
                  /\ text[k] \in SentenceEnd
                  /\ Len(Strip(SubSeq(text, i, k))) > MinSentenceLen }
  IN  IF ends = {}
        THEN (IF Strip(SubSeq(text, i, Len(text))) # << >>
                THEN << Strip(SubSeq(text, i, Len(text))) >>
                ELSE << >>)
        ELSE << Strip(SubSeq(text, i, MinOf(ends))) >>
               \o SplitSentences(text, MinOf(ends) + 1)

\* lines 50-51: the comparison key of a sentence
CleanSentence(sentence) ==
  CollapseWhitespace(LowerText(Strip(RemoveTags(sentence, 1))))

\* OverlapExceeds with `>=` for `>`
OverlapExceeds_AtLeast(sentence_words, seen_words) ==
  /\ Cardinality(sentence_words) > 0
  /\ Cardinality(seen_words) > 0
  /\ OverlapDen * Cardinality(sentence_words \cap seen_words)
       >= OverlapNum * Min(Cardinality(sentence_words), Cardinality(seen_words))

\* lines 64-66: overlap = |A & B| / min(|A|, |B|) > 0.8
OverlapExceeds(sentence_words, seen_words) ==
  /\ Cardinality(sentence_words) > 0
  /\ Cardinality(seen_words) > 0
  /\ OverlapDen * Cardinality(sentence_words \cap seen_words)
       > OverlapNum * Min(Cardinality(sentence_words), Cardinality(seen_words))

\* lines 59-69: the candidate is similar to some retained comparison key
IsDuplicate(clean_sentence, seen_content) ==
  \E seen \in seen_content :
    OverlapExceeds(WordSet(clean_sentence), WordSet(seen))

\* Step 2 (lines 45-73): the sentences kept from sentences[i..]
RECURSIVE UniqueSentences(_, _, _)
UniqueSentences(sentences, i, seen_content) ==
  IF i > Len(sentences) THEN << >>
  ELSE LET sentence == sentences[i]
           clean_sentence == CleanSentence(sentence)
       IN  IF Len(clean_sentence) < MinCompareLen
             THEN << sentence >> \o UniqueSentences(sentences, i + 1, seen_content)
           ELSE IF IsDuplicate(clean_sentence, seen_content)
             THEN UniqueSentences(sentences, i + 1, seen_content)
           ELSE << sentence >>
                  \o UniqueSentences(sentences, i + 1, seen_content \cup {clean_sentence})

\* `<h2[^>]*>[^<]*</h2>` at index i: the index after the match, 0 when
\* there is no match
HeaderEnd(s, i) ==
  IF ~MatchAt(s, i, << "<", "h", "2" >>) THEN 0
  ELSE LET gt == IndexOf(s, ">", i + 3)
           lt == IF gt = 0 THEN 0 ELSE IndexOf(s, "<", gt + 1)
       IN  IF lt # 0 /\ MatchAt(s, lt, << "<", "/", "h", "2", ">" >>)
             THEN lt + 5
             ELSE 0

\* `(<h2[^>]*>[^<]*</h2>)\s*(<h2[^>]*>[^<]*</h2>)` at index i: the index
\* after the match, 0 when there is no match
HeaderPairEnd(s, i) ==
  LET e1 == HeaderEnd(s, i)
  IN  IF e1 = 0 THEN 0 ELSE HeaderEnd(s, SkipSpace(s, e1))

\* line 80: re.sub(r'(<h2[^>]*>[^<]*</h2>)\s*(<h2[^>]*>[^<]*</h2>)',
\* r'\1\n\n\2', s) from index i on: the leftmost pair of adjacent headings
\* is separated by a blank line and the scan resumes behind the pair
RECURSIVE SpaceHeaders(_, _)
SpaceHeaders(s, i) ==
  LET pairs == { j \in i..Len(s) : HeaderPairEnd(s, j) # 0 }
  IN  IF pairs = {} THEN SubSeq(s, i, Len(s))
      ELSE LET j  == MinOf(pairs)
               e1 == HeaderEnd(s, j)
               w  == SkipSpace(s, e1)
               e2 == HeaderEnd(s, w)
           IN  SubSeq(s, i, e1 - 1) \o << "\n", "\n" >> \o SubSeq(s, w, e2 - 1)
                 \o SpaceHeaders(s, e2)

remove_duplicate_content(text) ==
  IF ~Truthy(text) THEN text
  ELSE LET sentences == SplitSentences(text, 1)
           unique_sentences == UniqueSentences(sentences, 1, {})
           result == JoinSpace(unique_sentences, 1)
       IN  SpaceHeaders(CollapseWhitespace(result), 1)

(***************************************************************************)
(* ensure_proper_ending (pipeline.py:85-103).                              *)
(***************************************************************************)
\* "<h2>Recommended next steps", matched ignoring case (line 91)
ThirdHeading ==
  << "<","h","2",">","r","e","c","o","m","m","e","n","d","e","d"," ",
     "n","e","x","t"," ","s","t","e","p","s" >>

\* `<h2>Recommended next steps[^<]*</h2>` at index i: the index after the
\* heading, 0 when there is no match
HeadingEnd(s, i) ==
  IF ~MatchAtCI(s, i, ThirdHeading) THEN 0
  ELSE LET lt == IndexOf(s, "<", i + Len(ThirdHeading))
       IN  IF lt # 0 /\ MatchAtCI(s, lt, << "<", "/", "h", "2", ">" >>)
             THEN lt + 5
             ELSE 0

\* SectionEnd for a greedy `.*`: the section runs to the end of the string
SectionEnd_Greedy(s, pos) == Len(s) + 1

\* `.*?(?=<h2>|$)` from index pos: the first index at which the next
\* heading starts or the string ends ($ also matches before a final newline)
SectionEnd(s, pos) ==
  MinOf({ k \in pos..(Len(s) + 1) :
            \/ k > Len(s)
            \/ MatchAtCI(s, k, << "<", "h", "2", ">" >>)
            \/ (k = Len(s) /\ s[k] = "\n") })

\* re.search: the leftmost index where the heading matches, 0 when there
\* is none
SearchSection(s) ==
  LET at == { i \in 1..Len(s) : HeadingEnd(s, i) # 0 }
  IN  IF at = {} THEN 0 ELSE MinOf(at)

\* ensure_proper_ending that strips the text also when there is no heading
ensure_proper_ending_AlwaysStrips(text) ==
  IF ~Truthy(text) THEN text
  ELSE LET start == SearchSection(text)
       IN  IF start = 0 THEN Strip(text)
           ELSE Strip(SubSeq(text, 1, SectionEnd(text, HeadingEnd(text, start)) - 1))

ensure_proper_ending(text) ==
  IF ~Truthy(text) THEN text
  ELSE LET start == SearchSection(text)
       IN  IF start = 0 THEN text
           ELSE Strip(SubSeq(text, 1, SectionEnd(text, HeadingEnd(text, start)) - 1))

(***************************************************************************)
(* generate_simple_fallback (pipeline.py:105-121).                         *)
(***************************************************************************)
\* the template before and after `{len(text)}`
FallbackHead ==
  <<
     "\n"," "," "," "," ","<","h","2",">","M","e","d","i","c","a","l"," ","R","e","p","o","r","t",
     " ","A","n","a","l","y","s","i","s","<","/","h","2",">","\n"," "," "," "," ","<","p",">","I",
     "'","v","e"," ","a","n","a","l","y","z","e","d"," ","y","o","u","r"," ","m","e","d","i","c","a",
     "l"," ","r","e","p","o","r","t","."," ","U","n","f","o","r","t","u","n","a","t","e","l","y",",",
     " ","t","h","e"," ","a","d","v","a","n","c","e","d"," ","A","I"," ","a","n","a","l","y","s","i",
     "s"," ","i","s"," ","c","u","r","r","e","n","t","l","y"," ","u","n","a","v","a","i","l","a","b",
     "l","e",","," ","\n"," "," "," "," ","b","u","t"," ","I"," ","c","a","n"," ","c","o","n","f",
     "i","r","m"," ","t","h","a","t"," ","y","o","u","r"," ","d","o","c","u","m","e","n","t"," ","h",
     "a","s"," ","b","e","e","n"," ","p","r","o","c","e","s","s","e","d"," ","a","n","d"," ","c","o",
     "n","t","a","i","n","s"," "
  >>
FallbackTail ==
  <<
     " ","c","h","a","r","a","c","t","e","r","s"," ","o","f"," ","m","e","d","i","c","a","l"," ","t",
     "e","x","t",".","<","/","p",">","\n"," "," "," "," ","\n"," "," "," "," ","<","p",">","F","o",
     "r"," ","a"," ","d","e","t","a","i","l","e","d"," ","e","x","p","l","a","n","a","t","i","o","n",
     " ","o","f"," ","y","o","u","r"," ","m","e","d","i","c","a","l"," ","r","e","p","o","r","t",",",
     " ","p","l","e","a","s","e",":","<","/","p",">","\n"," "," "," "," ","<","u","l",">","\n"," ",
     " "," "," "," "," "," "," ","<","l","i",">","C","o","n","s","u","l","t"," ","w","i","t","h"," ",
     "y","o","u","r"," ","h","e","a","l","t","h","c","a","r","e"," ","p","r","o","v","i","d","e","r",
     "<","/","l","i",">","\n"," "," "," "," "," "," "," "," ","<","l","i",">","A","s","k"," ","y",
     "o","u","r"," ","d","o","c","t","o","r"," ","t","o"," ","e","x","p","l","a","i","n"," ","a","n",
     "y"," ","m","e","d","i","c","a","l"," ","t","e","r","m","s"," ","y","o","u"," ","d","o","n","'",
     "t"," ","u","n","d","e","r","s","t","a","n","d","<","/","l","i",">","\n"," "," "," "," "," ",
     " "," "," ","<","l","i",">","R","e","q","u","e","s","t"," ","a"," ","f","o","l","l","o","w","-",
     "u","p"," ","a","p","p","o","i","n","t","m","e","n","t"," ","i","f"," ","y","o","u"," ","h","a",
     "v","e"," ","c","o","n","c","e","r","n","s","<","/","l","i",">","\n"," "," "," "," ","<","/",
     "u","l",">","\n"," "," "," "," ","\n"," "," "," "," ","<","p",">","<","e","m",">","N","o","t",
     "e",":"," ","T","h","i","s"," ","i","s"," ","a"," ","b","a","s","i","c"," ","f","a","l","l","b",
     "a","c","k"," ","r","e","s","p","o","n","s","e","."," ","F","o","r"," ","c","o","m","p","r","e",
     "h","e","n","s","i","v","e"," ","m","e","d","i","c","a","l"," ","a","n","a","l","y","s","i","s",
     ","," ","\n"," "," "," "," ","p","l","e","a","s","e"," ","e","n","s","u","r","e"," ","t","h",
     "e"," ","A","I"," ","s","e","r","v","i","c","e"," ","i","s"," ","p","r","o","p","e","r","l","y",
     " ","c","o","n","f","i","g","u","r","e","d",".","<","/","e","m",">","<","/","p",">","\n"," ",
     " "," "," "
  >>

\* generate_simple_fallback that returns an empty text
generate_simple_fallback_Empty(text) == << >>

generate_simple_fallback(text) ==
  FallbackHead \o Decimal(Len(text)) \o FallbackTail

(***************************************************************************)
(* The environment: files, the OCR library, the LLM backends.              *)
(***************************************************************************)
\* a file path is the sequence of its components
ReportPath == << "..", "uploads", "report.png" >>
MissingPath == << "..", "uploads", "missing.pdf" >>
FilePaths == { ReportPath, MissingPath }

\* the file_id arguments of process_report: omitted (None), empty, given
FileIdArgs == { NoneStr, "", "a1b2c3d4" }

\* os.path.basename(path)
Basename(path) == IF path = << >> THEN "" ELSE Last(path)

\* the path as one string
RECURSIVE PathStr(_)
PathStr(path) ==
  IF Len(path) = 0 THEN ""
  ELSE IF Len(path) = 1 THEN path[1]
  ELSE path[1] \o "/" \o PathStr(Tail(path))

\* the files open() can read, and their bytes
FileBytes == [ path \in { ReportPath } |-> "report-bytes" ]

\* str(e) of the OSError open() raises for a missing file
OpenError(path) ==
  "[Errno 2] No such file or directory: '" \o PathStr(path) \o "'"

\* hashlib.sha3_256(bytes).hexdigest() of the bytes of the model's files
ReportDigest ==
  <<
     "f","3","6","c","2","5","1","6","0","a","7","b","d","b","f","5","3","b","7","6","d","d","1","b",
     "8","3","3","5","2","1","2","7","3","b","d","c","8","6","d","a","7","7","2","1","0","9","2","7",
     "f","b","e","d","e","b","5","4","4","3","a","d","9","9","f","b"
  >>

sha3_256_hexdigest(bytes) ==
  CASE bytes = "report-bytes" -> ReportDigest

\* what pytesseract.image_to_string returns for the model's images
OcrValid ==
  <<
     "P","a","t","i","e","n","t",":"," ","M","a","r","i","a"," ","L","o","p","e","z"," ","G","a","r",
     "c","i","a","\n","D","o","c","t","o","r",":"," ","D","r","."," ","A","n","i","l"," ","R","a",
     "o","\n","D","i","a","g","n","o","s","i","s",":"," ","P","n","e","u","m","o","n","i","a"," ",
     "(","J","1","8",".","9",")","\n","\n","C","h","e","s","t"," ","X","-","r","a","y"," ","s","h",
     "o","w","s"," ","c","o","n","s","o","l","i","d","a","t","i","o","n",".","\n"
  >>
OcrSpaced ==
  <<
     "a","b"," ","c"," ","d"," ","e"," ","f"," ","g"," ","h"," ","i"," ","j"," ","k"
  >>
OcrNonAscii ==
  <<
     "U+00E9"," ","U+00E9"," ","U+00E9"," ","U+00E9"," ","U+00E9"," ","U+00E9"," ","U+00E9"," ",
     "U+00E9"," ","U+00E9"," ","U+00E9"," ","U+00E9"
  >>
OcrShort ==
  <<
     " "," ","P","n","e","u","m","o","n","i","a"," ","J","1","8"," ","x","-","r","a","y"," ","\n"
  >>
OcrEmpty == << >>

OcrTexts == { OcrValid, OcrSpaced, OcrNonAscii, OcrShort, OcrEmpty }

\* str(e) of the exception the OCR library raises
OcrFailure ==
  <<
     "t","e","s","s","e","r","a","c","t"," ","i","s"," ","n","o","t"," ","i","n","s","t","a","l","l",
     "e","d"," ","o","r"," ","i","t","'","s"," ","n","o","t"," ","i","n"," ","y","o","u","r"," ","P",
     "A","T","H"
  >>
OcrErrorPrefix ==
  <<
     "E","r","r","o","r"," ","d","u","r","i","n","g"," ","O","C","R",":"," "
  >>

\* the behaviours of the OCR library: it returns a text or it raises
OcrResponses ==
  [ kind : { "text" }, text : OcrTexts ] \cup { [ kind |-> "raise", text |-> OcrFailure ] }

\* the arguments of explain_text: a text of the extractor, or None
ExplainTexts == OcrTexts \cup { OcrErrorPrefix \o OcrFailure, NoneText }

\* texts around the limit of the request: a line of a report repeated up to
\* a given length
LongLine ==
  <<
     "H","e","m","o","g","l","o","b","i","n"," ","1","3",".","5"," ","g","/","d","L",","," ","w","i",
     "t","h","i","n"," ","r","a","n","g","e","."," "
  >>
LongText(n) == [ i \in 1..n |-> LongLine[((i - 1) % Len(LongLine)) + 1] ]
TextAtLimit == LongText(MaxPromptLen)
TextOverLimit == LongText(MaxPromptLen + Len(LongLine))
LongTexts == { TextAtLimit, TextOverLimit }

\* extract_text (ocr.py:11-26) on an image: the text of the library, or
\* the error text when the library raises
extract_text(file_path, response) ==
  IF response.kind = "raise"
    THEN OcrErrorPrefix \o response.text
    ELSE response.text

\* the models tried by generate_llm_summary, in order (pipeline.py:183,
\* 209, 229)
Models == << "openai/gpt-oss-120b", "llama3-8b-8192", "gemma2-9b-it" >>
BackendPc == << "llm_primary", "llm_secondary", "llm_tertiary" >>

\* what a backend returns as completion.choices[0].message.content
LlmLong ==
  <<
     "<","h","2",">","W","h","a","t"," ","t","h","e"," ","r","e","p","o","r","t"," ","i","s"," ","t",
     "e","l","l","i","n","g"," ","y","o","u","<","/","h","2",">","<","p",">","T","h","e"," ","s","c",
     "a","n"," ","s","h","o","w","s"," ","m","i","l","d"," ","p","n","e","u","m","o","n","i","a"," ",
     "i","n"," ","t","h","e"," ","l","e","f","t"," ","l","u","n","g",".","<","/","p",">"," ","<","p",
     ">","T","h","e"," ","s","c","a","n"," ","s","h","o","w","s"," ","m","i","l","d"," ","p","n","e",
     "u","m","o","n","i","a"," ","i","n"," ","t","h","e"," ","l","e","f","t"," ","l","u","n","g",".",
     "<","/","p",">","<","h","2",">","W","h","a","t"," ","t","h","i","s"," ","m","e","a","n","s"," ",
     "f","o","r"," ","y","o","u","r"," ","h","e","a","l","t","h","<","/","h","2",">","<","p",">","I",
     "t"," ","i","s"," ","t","r","e","a","t","a","b","l","e"," ","w","i","t","h"," ","a","n","t","i",
     "b","i","o","t","i","c","s"," ","a","n","d"," ","r","e","s","t",".","<","/","p",">","<","h","2",
     ">","R","e","c","o","m","m","e","n","d","e","d"," ","n","e","x","t"," ","s","t","e","p","s","<",
     "/","h","2",">","<","p",">","S","e","e"," ","y","o","u","r"," ","d","o","c","t","o","r"," ","w",
     "i","t","h","i","n"," ","o","n","e"," ","w","e","e","k",".","<","/","p",">","<","h","2",">","D",
     "i","s","c","l","a","i","m","e","r","<","/","h","2",">","<","p",">","G","e","n","e","r","a","t",
     "e","d"," ","t","e","x","t",".","<","/","p",">"
  >>
Llm101 ==
  <<
     "<","p",">","T","h","e"," ","r","e","p","o","r","t"," ","s","h","o","w","s"," ","a"," ","m","i",
     "l","d"," ","c","h","e","s","t"," ","i","n","f","e","c","t","i","o","n"," ","t","h","a","t"," ",
     "u","s","u","a","l","l","y"," ","c","l","e","a","r","s"," ","w","i","t","h"," ","r","e","s","t",
     " ","a","n","d"," ","p","r","e","s","c","r","i","b","e","d"," ","m","e","d","i","c","i","n","e",
     "s","<","/","p",">"
  >>
Llm100 ==
  <<
     "<","p",">","T","h","e"," ","r","e","p","o","r","t"," ","s","h","o","w","s"," ","a"," ","m","i",
     "l","d"," ","c","h","e","s","t"," ","i","n","f","e","c","t","i","o","n"," ","t","h","a","t"," ",
     "u","s","u","a","l","l","y"," ","c","l","e","a","r","s"," ","w","i","t","h"," ","r","e","s","t",
     " ","a","n","d"," ","p","r","e","s","c","r","i","b","e","d"," ","m","e","d","i","c","i","n","e",
     "<","/","p",">"
  >>
LlmDuplicated ==
  <<
     "T","h","e"," ","s","c","a","n"," ","s","h","o","w","s"," ","m","i","l","d"," ","p","n","e","u",
     "m","o","n","i","a"," ","i","n"," ","t","h","e"," ","l","e","f","t"," ","l","u","n","g","."," ",
     "T","h","e"," ","s","c","a","n"," ","s","h","o","w","s"," ","m","i","l","d"," ","p","n","e","u",
     "m","o","n","i","a"," ","i","n"," ","t","h","e"," ","l","e","f","t"," ","l","u","n","g","."," ",
     "T","h","e"," ","s","c","a","n"," ","s","h","o","w","s"," ","m","i","l","d"," ","p","n","e","u",
     "m","o","n","i","a"," ","i","n"," ","t","h","e"," ","l","e","f","t"," ","l","u","n","g","."," "
  >>
LlmEmpty == << >>

LlmContents == { LlmLong, Llm101, Llm100, LlmDuplicated, LlmEmpty }

\* the values of GROQ_API_KEY (pipeline.py:20): the default, the
\* placeholder, an empty environment variable
ApiKeys == { "gsk_default", "your-api-key-here", "" }

\* the messages explain_text returns without analysis (pipeline.py:255, 263)
NoLegibleTextFile ==
  <<
     "I"," ","c","o","u","l","d","n","'","t"," ","f","i","n","d"," ","a","n","y"," ","l","e","g","i",
     "b","l","e"," ","t","e","x","t"," ","i","n"," ","t","h","i","s"," ","d","o","c","u","m","e","n",
     "t","."," ","P","l","e","a","s","e"," ","c","h","e","c","k"," ","i","f"," ","t","h","e"," ","f",
     "i","l","e"," ","i","s"," ","c","l","e","a","r"," ","a","n","d"," ","c","o","n","t","a","i","n",
     "s"," ","a","c","t","u","a","l"," ","t","e","x","t"," ","c","o","n","t","e","n","t","."
  >>
NoLegibleTextImage ==
  <<
     "I"," ","c","o","u","l","d","n","'","t"," ","f","i","n","d"," ","a","n","y"," ","l","e","g","i",
     "b","l","e"," ","t","e","x","t"," ","i","n"," ","t","h","i","s"," ","d","o","c","u","m","e","n",
     "t","."," ","P","l","e","a","s","e"," ","c","h","e","c","k"," ","i","f"," ","t","h","e"," ","i",
     "m","a","g","e"," ","i","s"," ","c","l","e","a","r"," ","a","n","d"," ","t","r","y"," ","a","g",
     "a","i","n","."
  >>

\* str(uuid.uuid4())[:8].upper(), the n-th value drawn
UuidValues == << "3F2A9C1E", "B7D04E55", "0C6E18A2", "9A41D7F3" >>
Uuid(n) == UuidValues[((n - 1) % Len(UuidValues)) + 1]

\* str(e) of an exception raised inside MedicalCertificate
SynthesizerErrors == { "certificate synthesizer failed" }

(***************************************************************************)
(* MedicalCertificate (certificate.py).                                    *)
(***************************************************************************)
\* c.upper()
Upper(c) ==
  IF \E i \in 1..Len(LowerCase) : LowerCase[i] = c
    THEN UpperCase[CHOOSE i \in 1..Len(LowerCase) : LowerCase[i] = c]
    ELSE c

IsLetter(c) == c \in Range(UpperCase) \cup Range(LowerCase)

\* the classes `[:\s]` and `[A-Za-z\s\.]` of the pattern of line 41
IsSeparator(c) == c = ":" \/ IsSpace(c)
IsNameChar(c) == IsLetter(c) \/ IsSpace(c) \/ c = "."

\* `(?:patient|name)` at index i, ignoring case: the index after the
\* label, 0 when there is no match
LabelEnd(s, i) ==
  IF MatchAtCI(s, i, << "p","a","t","i","e","n","t" >>) THEN i + 7
  ELSE IF MatchAtCI(s, i, << "n","a","m","e" >>) THEN i + 4
  ELSE 0

\* the number of characters from index i on that are all separators
SeparatorRun(s, i) ==
  MinOf({ k \in i..(Len(s) + 1) : k > Len(s) \/ ~IsSeparator(s[k]) }) - i

\* the number of characters from index i on that are all name characters,
\* MaxNameLen at most
NameRun(s, i) ==
  Min(MaxNameLen,
      MinOf({ k \in i..(Len(s) + 1) : k > Len(s) \/ ~IsNameChar(s[k]) }) - i)

\* `[:\s]+([A-Za-z\s\.]{2,30})` from index e on: the separators are matched
\* greedily and given back one by one until the group has MinNameLen
\* characters; the start of the group, 0 when there is no match
NameGroupStart(s, e) ==
  LET starts == { k \in (e + 1)..(e + SeparatorRun(s, e)) : NameRun(s, k) >= MinNameLen }
  IN  IF starts = {} THEN 0 ELSE MaxOf(starts)

\* re.search of line 41: the group of the leftmost match, None when the
\* pattern matches nowhere
SearchPatientName(s) ==
  LET at == { i \in 1..Len(s) :
                LabelEnd(s, i) # 0 /\ NameGroupStart(s, LabelEnd(s, i)) # 0 }
  IN  IF at = {} THEN NoneText
      ELSE LET g == NameGroupStart(s, LabelEnd(s, MinOf(at)))
           IN  SubSeq(s, g, g + NameRun(s, g) - 1)

\* extract_key_info (certificate.py:36-43): the patient name
extract_key_info(text) ==
  LET name_match == SearchPatientName(text)
  IN  IF name_match # NoneText
        THEN Put(EmptyDict, "patient_name", Strip(name_match))
        ELSE EmptyDict

\* the first characters of the words of name.split()
FirstChars(name) ==
  Kept(name, { i \in 1..Len(name) : ~IsSpace(name[i]) /\ (i = 1 \/ IsSpace(name[i - 1])) }, name)

\* certificate.py:95: "".join([n[0].upper() for n in name.split()[:2]])
InitialsOf(name) ==
  LET first == Take(FirstChars(name), MaxInitials)
  IN  [ i \in 1..Len(first) |-> Upper(first[i]) ]

\* the values used when no patient name was extracted (lines 93, 95)
DefaultName == << "P","a","t","i","e","n","t" >>
PlaceholderInitials == << "P", ".", "A", "." >>

\* lines 92-96: the patient_info of the certificate
patient_info(key_info) ==
  [ name     |-> IF "patient_name" \in DOMAIN key_info
                   THEN key_info.patient_name ELSE DefaultName,
    initials |-> IF "patient_name" \in DOMAIN key_info
                   THEN InitialsOf(key_info.patient_name)
                   ELSE PlaceholderInitials ]

\* patient_info of the key information, on the texts of the extractor of
\* the model
PatientInfos == [ text \in ExplainTexts |-> patient_info(extract_key_info(text)) ]

\* generate_certificate (certificate.py:58-110): the certificate record
generate_certificate(text, file_hash, explanation, cert_id, timestamp) ==
  [ certificate_id       |-> "MED-CERT-" \o cert_id,
    document_hash        |-> file_hash,
    verification_address |-> "Not verified on blockchain",
    timestamp            |-> timestamp,
    patient_info         |-> IF text \in DOMAIN PatientInfos
                               THEN PatientInfos[text]
                               ELSE patient_info(extract_key_info(text)),
    ai_analysis_available |-> Truthy(explanation),
    certificate_status   |-> "VALID" ]

\* generate_certificate_html (certificate.py:113-165): the values the
\* fixed document embeds
generate_certificate_html(certificate) ==
  [ certificate_id     |-> certificate.certificate_id,
    hash_head          |-> Take(certificate.document_hash, 20),
    hash_tail          |-> From(certificate.document_hash,
                                Len(certificate.document_hash) - 7),
    timestamp          |-> certificate.timestamp,
    initials           |-> certificate.patient_info.initials,
    certificate_status |-> certificate.certificate_status ]

(***************************************************************************)
(* The state.                                                              *)
(***************************************************************************)
VARIABLES
  processed_files,  \* MedicalReportPipeline.processed_files: file_id -> results
  call,             \* per caller: the position and the locals of its call
  clock,            \* the calls started so far; datetime.now() reads it
  uuids,            \* the uuid4 values drawn so far
  GROQ_API_KEY      \* the module constant read from the environment

vars == << processed_files, call, clock, uuids, GROQ_API_KEY >>

Callers == { "c1", "c2" }

\* a caller that is in no call
IdleCall ==
  [ pc               |-> "idle",
    op               |-> "none",
    file_path        |-> << >>,
    file_id          |-> NoneStr,
    results          |-> EmptyDict,
    file_hash        |-> NoneText,
    extracted_text   |-> NoneText,
    explanation      |-> NoneText,
    certificate_data |-> EmptyDict,
    exc              |-> NoneStr,
    text             |-> NoneText,
    cleaned_text     |-> NoneText,
    llm_summary      |-> NoneText,
    llm_calls        |-> << >>,
    sentences        |-> << >>,
    unique_sentences |-> << >>,
    seen_content     |-> {},
    index            |-> 0,
    ret              |-> NoneText ]

Init ==
  /\ processed_files = EmptyDict
  /\ call = [ p \in Callers |-> IdleCall ]
  /\ clock = 0
  /\ uuids = 0
  /\ GROQ_API_KEY \in ApiKeys

\* results['steps_completed'].append(step)
AddStep(results, step) ==
  [ results EXCEPT !.steps_completed = Append(@, step) ]

\* results['errors'].append(error)
AddError(results, error) ==
  [ results EXCEPT !.errors = Append(@, error) ]

(***************************************************************************)
(* process_report (pipeline.py:298-392).                                   *)
(***************************************************************************)
\* lines 309-320: the file_id defaults to the base name; results is
\* initialized
StartReport(p, file_path, file_id, runs) ==
  /\ call[p].pc = "idle"
  /\ clock < runs
  /\ clock' = clock + 1
  /\ LET id == IF file_id = NoneStr \/ file_id = "" THEN Basename(file_path) ELSE file_id
     IN  call' = [ call EXCEPT ![p] =
           [ IdleCall EXCEPT
               !.pc = "hash",
               !.op = "process_report",
               !.file_path = file_path,
               !.file_id = id,
               !.results = [ file_path       |-> file_path,
                             file_id         |-> id,
                             timestamp       |-> clock',
                             status          |-> "processing",
                             steps_completed |-> << >>,
                             errors          |-> << >> ] ] ]
  /\ UNCHANGED << processed_files, uuids, GROQ_API_KEY >>

PR_Start(p, file_path, file_id) == StartReport(p, file_path, file_id, MaxRuns)

\* PR_Hash with the timestamp of the run hashed with the bytes
PR_Hash_Salted(p) ==
  /\ call[p].pc = "hash"
  /\ LET c == call[p]
     IN  IF c.file_path \in DOMAIN FileBytes
           THEN LET file_hash == sha3_256_hexdigest(FileBytes[c.file_path])
                                   \o Decimal(c.results.timestamp)
                IN  call' = [ call EXCEPT ![p] =
                      [ c EXCEPT
                          !.pc = "ocr",
                          !.file_hash = file_hash,
                          !.results = AddStep(Put(c.results, "file_hash", file_hash),
                                              "hash_generation") ] ]
           ELSE call' = [ call EXCEPT ![p] =
                  [ c EXCEPT !.pc = "except", !.exc = OpenError(c.file_path) ] ]
  /\ UNCHANGED << processed_files, clock, uuids, GROQ_API_KEY >>

\* lines 323-330, STEP 1: the file is read and hashed; open() raises for
\* a missing file
PR_Hash(p) ==
  /\ call[p].pc = "hash"
  /\ LET c == call[p]
     IN  IF c.file_path \in DOMAIN FileBytes
           THEN LET file_hash == sha3_256_hexdigest(FileBytes[c.file_path])
                IN  call' = [ call EXCEPT ![p] =
                      [ c EXCEPT
                          !.pc = "ocr",
                          !.file_hash = file_hash,
                          !.results = AddStep(Put(c.results, "file_hash", file_hash),
                                              "hash_generation") ] ]
           ELSE call' = [ call EXCEPT ![p] =
                  [ c EXCEPT !.pc = "except", !.exc = OpenError(c.file_path) ] ]
  /\ UNCHANGED << processed_files, clock, uuids, GROQ_API_KEY >>

\* PR_Extract with the length taken of the text as extracted, not stripped
PR_Extract_NotStripped(p, response) ==
  /\ call[p].pc = "ocr"
  /\ LET c == call[p]
         extracted_text == extract_text(c.file_path, response)
     IN  call' = [ call EXCEPT ![p] =
           [ c EXCEPT
               !.pc = "analysis",
               !.extracted_text = extracted_text,
               !.results =
                 IF ~Truthy(extracted_text) \/ Len(extracted_text) < MinTextLen
                   THEN AddError(c.results, "OCR_EXTRACTION_FAILED")
                   ELSE AddStep(Put(c.results, "extracted_text", extracted_text), "ocr") ] ]
  /\ UNCHANGED << processed_files, clock, uuids, GROQ_API_KEY >>

\* lines 332-343, STEP 2: the text is extracted and accepted or refused
PR_Extract(p, response) ==
  /\ call[p].pc = "ocr"
  /\ LET c == call[p]
         extracted_text == extract_text(c.file_path, response)
     IN  call' = [ call EXCEPT ![p] =
           [ c EXCEPT
               !.pc = "analysis",
               !.extracted_text = extracted_text,
               !.results =
                 IF ~Truthy(extracted_text) \/ Len(Strip(extracted_text)) < MinTextLen
                   THEN AddError(c.results, "OCR_EXTRACTION_FAILED")
                   ELSE AddStep(Put(c.results, "extracted_text", extracted_text), "ocr") ] ]
  /\ UNCHANGED << processed_files, clock, uuids, GROQ_API_KEY >>

\* PR_Analysis without the gate on the extraction step
PR_Analysis_NotGated(p) ==
  /\ call[p].pc = "analysis"
  /\ call' = [ call EXCEPT ![p] =
       [ @ EXCEPT !.pc = "explain", !.text = call[p].extracted_text ] ]
  /\ UNCHANGED << processed_files, clock, uuids, GROQ_API_KEY >>

\* lines 346-348, STEP 3: explain_text is called when the text was
\* extracted, and the step is skipped otherwise
PR_Analysis(p) ==
  /\ call[p].pc = "analysis"
  /\ LET c == call[p]
     IN  call' = [ call EXCEPT ![p] =
           IF "ocr" \in Range(c.results.steps_completed)
             THEN [ c EXCEPT !.pc = "explain", !.text = c.extracted_text ]
             ELSE [ c EXCEPT !.pc = "certificate" ] ]
  /\ UNCHANGED << processed_files, clock, uuids, GROQ_API_KEY >>

\* lines 348-357: explain_text has returned; its locals are gone
PR_Explained(p) ==
  /\ call[p].pc = "explained"
  /\ call[p].op = "process_report"
  /\ LET c == call[p]
         explanation == c.ret
     IN  call' = [ call EXCEPT ![p] =
           [ c EXCEPT
               !.pc = "certificate",
               !.explanation = explanation,
               !.text = NoneText,
               !.cleaned_text = NoneText,
               !.llm_summary = NoneText,
               !.llm_calls = << >>,
               !.ret = NoneText,
               !.results =
                 IF Truthy(explanation)
                   THEN AddStep(Put(c.results, "explanation", explanation), "analysis")
                   ELSE AddError(c.results, "AI_ANALYSIS_FAILED") ] ]
  /\ UNCHANGED << processed_files, clock, uuids, GROQ_API_KEY >>

\* PR_Certificate without the gate on the analysis step
PR_Certificate_NotGated(p) ==
  /\ call[p].pc = "certificate"
  /\ LET c == call[p]
         certificate_data ==
           generate_certificate(c.extracted_text, c.file_hash, c.explanation,
                                Uuid(uuids + 1), clock)
     IN  /\ uuids' = uuids + 1
         /\ call' = [ call EXCEPT ![p] =
              [ c EXCEPT
                  !.pc = "certificate_html",
                  !.certificate_data = certificate_data,
                  !.results = Put(c.results, "certificate", certificate_data) ] ]
  /\ UNCHANGED << processed_files, clock, GROQ_API_KEY >>

\* lines 360-367 and 371-373, STEP 4: the certificate is generated when
\* the analysis completed, and the step is skipped otherwise
PR_Certificate(p) ==
  /\ call[p].pc = "certificate"
  /\ LET c == call[p]
     IN  IF "analysis" \in Range(c.results.steps_completed)
           THEN LET certificate_data ==
                      generate_certificate(c.extracted_text, c.file_hash, c.explanation,
                                           Uuid(uuids + 1), clock)
                IN  /\ uuids' = uuids + 1
                    /\ call' = [ call EXCEPT ![p] =
                         IF DOMAIN certificate_data # {}
                           THEN [ c EXCEPT
                                    !.pc = "certificate_html",
                                    !.certificate_data = certificate_data,
                                    !.results = Put(c.results, "certificate", certificate_data) ]
                           ELSE [ c EXCEPT
                                    !.pc = "final",
                                    !.results = AddError(c.results,
                                                         "CERTIFICATE_GENERATION_FAILED") ] ]
           ELSE /\ uuids' = uuids
                /\ call' = [ call EXCEPT ![p] = [ c EXCEPT !.pc = "final" ] ]
  /\ UNCHANGED << processed_files, clock, GROQ_API_KEY >>

\* line 362: generate_certificate raises
PR_CertificateRaises(p, message) ==
  /\ call[p].pc = "certificate"
  /\ "analysis" \in Range(call[p].results.steps_completed)
  /\ call' = [ call EXCEPT ![p] = [ @ EXCEPT !.pc = "except", !.exc = message ] ]
  /\ UNCHANGED << processed_files, clock, uuids, GROQ_API_KEY >>

\* lines 368-370: the certificate is rendered and the step recorded
PR_CertificateHtml(p) ==
  /\ call[p].pc = "certificate_html"
  /\ LET c == call[p]
     IN  call' = [ call EXCEPT ![p] =
           [ c EXCEPT
               !.pc = "final",
               !.results = AddStep(Put(c.results, "certificate_html",
                                       generate_certificate_html(c.certificate_data)),
                                   "certificate") ] ]
  /\ UNCHANGED << processed_files, clock, uuids, GROQ_API_KEY >>

\* line 368: generate_certificate_html raises
PR_CertificateHtmlRaises(p, message) ==
  /\ call[p].pc = "certificate_html"
  /\ call' = [ call EXCEPT ![p] = [ @ EXCEPT !.pc = "except", !.exc = message ] ]
  /\ UNCHANGED << processed_files, clock, uuids, GROQ_API_KEY >>

\* PR_Final with the errors ignored: the status is always 'completed'
PR_Final_AlwaysCompleted(p) ==
  /\ call[p].pc = "final"
  /\ LET c == call[p]
         results == [ c.results EXCEPT !.status = "completed" ]
     IN  /\ call' = [ call EXCEPT ![p] = [ c EXCEPT !.pc = "returned", !.results = results ] ]
         /\ processed_files' = Put(processed_files, c.file_id, results)
  /\ UNCHANGED << clock, uuids, GROQ_API_KEY >>

\* PR_Final that updates the stored result of the file_id key by key
PR_Final_Updates(p) ==
  /\ call[p].pc = "final"
  /\ LET c == call[p]
         results == [ c.results EXCEPT !.status =
                        IF c.results.errors # << >>
                          THEN "completed_with_errors"
                          ELSE "completed" ]
         stored == IF c.file_id \in DOMAIN processed_files
                     THEN processed_files[c.file_id]
                     ELSE EmptyDict
         merged == [ key \in DOMAIN stored \cup DOMAIN results |->
                       IF key \in DOMAIN results THEN results[key] ELSE stored[key] ]
     IN  /\ call' = [ call EXCEPT ![p] = [ c EXCEPT !.pc = "returned", !.results = results ] ]
         /\ processed_files' = Put(processed_files, c.file_id, merged)
  /\ UNCHANGED << clock, uuids, GROQ_API_KEY >>

\* lines 375-385: the final status is set, the result stored and returned
PR_Final(p) ==
  /\ call[p].pc = "final"
  /\ LET c == call[p]
         results == [ c.results EXCEPT !.status =
                        IF c.results.errors # << >>
                          THEN "completed_with_errors"
                          ELSE "completed" ]
     IN  /\ call' = [ call EXCEPT ![p] = [ c EXCEPT !.pc = "returned", !.results = results ] ]
         /\ processed_files' = Put(processed_files, c.file_id, results)
  /\ UNCHANGED << clock, uuids, GROQ_API_KEY >>

\* PR_Except with the handler missing: the exception leaves process_report
PR_Except_Reraises(p) ==
  /\ call[p].pc = "except"
  /\ call' = [ call EXCEPT ![p] = [ @ EXCEPT !.pc = "raised" ] ]
  /\ UNCHANGED << processed_files, clock, uuids, GROQ_API_KEY >>

\* PR_Except with the store of the failed result forgotten
PR_Except_NotStored(p) ==
  /\ call[p].pc = "except"
  /\ LET c == call[p]
         results == AddError([ c.results EXCEPT !.status = "failed" ],
                             "PIPELINE_ERROR: " \o c.exc)
     IN  call' = [ call EXCEPT ![p] = [ c EXCEPT !.pc = "returned", !.results = results ] ]
  /\ UNCHANGED << processed_files, clock, uuids, GROQ_API_KEY >>

\* lines 387-392: the handler of the exceptions of the try block
PR_Except(p) ==
  /\ call[p].pc = "except"
  /\ LET c == call[p]
         results == AddError([ c.results EXCEPT !.status = "failed" ],
                             "PIPELINE_ERROR: " \o c.exc)
     IN  /\ call' = [ call EXCEPT ![p] = [ c EXCEPT !.pc = "returned", !.results = results ] ]
         /\ processed_files' = Put(processed_files, c.file_id, results)
  /\ UNCHANGED << clock, uuids, GROQ_API_KEY >>

(***************************************************************************)
(* explain_text (pipeline.py:250-290) and generate_llm_summary             *)
(* (pipeline.py:123-248).                                                  *)
(***************************************************************************)
\* a caller calls explain_text directly
StartExplain(p, text, runs) ==
  /\ call[p].pc = "idle"
  /\ clock < runs
  /\ clock' = clock + 1
  /\ call' = [ call EXCEPT ![p] =
       [ IdleCall EXCEPT !.pc = "explain", !.op = "explain_text", !.text = text ] ]
  /\ UNCHANGED << processed_files, uuids, GROQ_API_KEY >>

ET_Call(p, text) == StartExplain(p, text, MaxRuns)

\* lines 258-259: the text without non-ASCII runs and whitespace runs
CleanedText(text) == Strip(CollapseWhitespace(ReplaceNonAscii(text)))

\* CleanedText on the arguments of the model
CleanedTexts == [ text \in ExplainTexts |-> CleanedText(text) ]

\* CleanedText of an argument of explain_text
Cleaned(text) ==
  IF text \in DOMAIN CleanedTexts THEN CleanedTexts[text] ELSE CleanedText(text)

\* ET_Enter without the check of the length of the text
ET_Enter_NoLengthCheck(p) ==
  /\ call[p].pc = "explain"
  /\ LET c == call[p]
         cleaned_text == Cleaned(c.text)
     IN  call' = [ call EXCEPT ![p] =
           IF ~Truthy(cleaned_text)
             THEN [ c EXCEPT !.pc = "explained", !.ret = NoLegibleTextImage ]
           ELSE IF GROQ_API_KEY # "" /\ GROQ_API_KEY # "your-api-key-here"
             THEN [ c EXCEPT !.pc = BackendPc[1], !.cleaned_text = cleaned_text ]
           ELSE [ c EXCEPT
                    !.pc = "explained",
                    !.cleaned_text = cleaned_text,
                    !.ret = generate_simple_fallback(cleaned_text) ] ]
  /\ UNCHANGED << processed_files, clock, uuids, GROQ_API_KEY >>

\* lines 254-272 and 283-286: the checks before the first backend
ET_Enter(p) ==
  /\ call[p].pc = "explain"
  /\ LET c == call[p]
         cleaned_text == Cleaned(c.text)
     IN  call' = [ call EXCEPT ![p] =
           IF ~Truthy(c.text) \/ Len(Strip(c.text)) < MinTextLen
             THEN [ c EXCEPT !.pc = "explained", !.ret = NoLegibleTextFile ]
           ELSE IF ~Truthy(cleaned_text)
             THEN [ c EXCEPT !.pc = "explained", !.ret = NoLegibleTextImage ]
           ELSE IF GROQ_API_KEY # "" /\ GROQ_API_KEY # "your-api-key-here"
             THEN [ c EXCEPT !.pc = BackendPc[1], !.cleaned_text = cleaned_text ]
           ELSE [ c EXCEPT
                    !.pc = "explained",
                    !.cleaned_text = cleaned_text,
                    !.ret = generate_simple_fallback(cleaned_text) ] ]
  /\ UNCHANGED << processed_files, clock, uuids, GROQ_API_KEY >>

\* LlmCall with the whole text in the request
LlmCall_NotTruncated(k, cleaned_text, raised, content) ==
  [ model   |-> Models[k],
    text    |-> cleaned_text,
    raised  |-> raised,
    content |-> content ]

\* the record of one backend call of generate_llm_summary: the model and
\* the text of the request (its argument, cleaned_text[:8000], lines 127-177
\* and 272), and the response, a content or an exception
LlmCall(k, cleaned_text, raised, content) ==
  [ model   |-> Models[k],
    text    |-> Take(cleaned_text, MaxPromptLen),
    raised  |-> raised,
    content |-> content ]

\* PostProcess without the canonicalizer
PostProcess_NotCanonicalized(summary) == remove_duplicate_content(summary)

\* lines 197-201, 219-221, 239-241: the content of a completion is passed
\* through the eliminator and the canonicalizer
PostProcess(summary) == ensure_proper_ending(remove_duplicate_content(summary))

\* PostProcess on the contents the backends of the model return
PostProcessed == [ content \in LlmContents |-> PostProcess(content) ]

\* lines 182-201, 208-221, 228-241: backend k returns a completion
LLM_Returns(p, k, content) ==
  /\ call[p].pc = BackendPc[k]
  /\ LET c == call[p]
     IN  call' = [ call EXCEPT ![p] =
           [ c EXCEPT
               !.pc = "llm_done",
               !.llm_calls = Append(@, LlmCall(k, c.cleaned_text, FALSE, content)),
               !.llm_summary = PostProcessed[content] ] ]
  /\ UNCHANGED << processed_files, clock, uuids, GROQ_API_KEY >>

\* lines 203-207, 223-227, 242-244: backend k raises; the next backend is
\* tried, and after the last one generate_llm_summary returns None
LLM_Raises(p, k) ==
  /\ call[p].pc = BackendPc[k]
  /\ LET c == call[p]
     IN  call' = [ call EXCEPT ![p] =
           [ c EXCEPT
               !.pc = IF k < Len(Models) THEN BackendPc[k + 1] ELSE "llm_done",
               !.llm_calls = Append(@, LlmCall(k, c.cleaned_text, TRUE, NoneText)),
               !.llm_summary = NoneText ] ]
  /\ UNCHANGED << processed_files, clock, uuids, GROQ_API_KEY >>

\* ET_Summary that returns the summary whatever it is
ET_Summary_NoFallback(p) ==
  /\ call[p].pc = "llm_done"
  /\ call' = [ call EXCEPT ![p] =
       [ @ EXCEPT !.pc = "explained", !.ret = call[p].llm_summary ] ]
  /\ UNCHANGED << processed_files, clock, uuids, GROQ_API_KEY >>

\* ET_Summary that accepts a summary of exactly the minimum length
ET_Summary_AtLeast(p) ==
  /\ call[p].pc = "llm_done"
  /\ LET c == call[p]
     IN  call' = [ call EXCEPT ![p] =
           [ c EXCEPT
               !.pc = "explained",
               !.ret = IF Truthy(c.llm_summary) /\ Len(c.llm_summary) >= MinSummaryLen
                         THEN c.llm_summary
                         ELSE generate_simple_fallback(c.cleaned_text) ] ]
  /\ UNCHANGED << processed_files, clock, uuids, GROQ_API_KEY >>

\* lines 274-278: the summary is returned when it is long enough, the
\* template otherwise
ET_Summary(p) ==
  /\ call[p].pc = "llm_done"
  /\ LET c == call[p]
     IN  call' = [ call EXCEPT ![p] =
           [ c EXCEPT
               !.pc = "explained",
               !.ret = IF Truthy(c.llm_summary) /\ Len(c.llm_summary) > MinSummaryLen
                         THEN c.llm_summary
                         ELSE generate_simple_fallback(c.cleaned_text) ] ]
  /\ UNCHANGED << processed_files, clock, uuids, GROQ_API_KEY >>

\* the caller takes the value returned by its call
Return(p) ==
  /\ \/ call[p].pc = "returned"
     \/ (call[p].pc = "explained" /\ call[p].op = "explain_text")
  /\ call' = [ call EXCEPT ![p] = IdleCall ]
  /\ UNCHANGED << processed_files, clock, uuids, GROQ_API_KEY >>

(***************************************************************************)
(* The specification: one caller, calls one after the other.               *)
(***************************************************************************)
Step(p) ==
  \/ \E file_path \in FilePaths, file_id \in FileIdArgs : PR_Start(p, file_path, file_id)
  \/ PR_Hash(p)
  \/ \E response \in OcrResponses : PR_Extract(p, response)
  \/ PR_Analysis(p)
  \/ PR_Explained(p)
  \/ PR_Certificate(p)
  \/ \E message \in SynthesizerErrors : PR_CertificateRaises(p, message)
  \/ PR_CertificateHtml(p)
  \/ \E message \in SynthesizerErrors : PR_CertificateHtmlRaises(p, message)
  \/ PR_Final(p)
  \/ PR_Except(p)
  \/ \E text \in ExplainTexts : ET_Call(p, text)
  \/ ET_Enter(p)
  \/ \E k \in 1..Len(Models), content \in LlmContents : LLM_Returns(p, k, content)
  \/ \E k \in 1..Len(Models) : LLM_Raises(p, k)
  \/ ET_Summary(p)
  \/ Return(p)

Next == Step("c1")

Spec == Init /\ [][Next]_vars

(***************************************************************************)
(* Properties of process_report.                                           *)
(***************************************************************************)
\* the callers that are inside process_report
InProcessReport(p) == call[p].op = "process_report"

\* the position of a call in the code: every step of a call moves it forward
Rank(pc) ==
  CASE pc = "idle"             -> 0
    [] pc = "hash"             -> 1
    [] pc = "ocr"              -> 2
    [] pc = "analysis"         -> 3
    [] pc = "explain"          -> 4
    [] pc = "llm_primary"      -> 5
    [] pc = "llm_secondary"    -> 6
    [] pc = "llm_tertiary"     -> 7
    [] pc = "llm_done"         -> 8
    [] pc = "explained"        -> 9
    [] pc = "certificate"      -> 10
    [] pc = "certificate_html" -> 11
    [] pc = "final"            -> 12
    [] pc = "except"           -> 13
    [] pc = "returned"         -> 14
    [] pc = "raised"           -> 15

\* C1: for every file path, file_id and behaviour of the extractor, the
\* backends and the certificate synthesizer, process_report ends by
\* returning a result: no exception leaves it (no call is ever at "raised"),
\* a call that has not returned can always take a step, every step moves
\* the call forward, and the returned result carries a terminal status.
C1_AlwaysReturnsResult ==
  /\ [](\A p \in Callers :
          /\ call[p].pc # "raised"
          /\ (InProcessReport(p) /\ call[p].pc # "returned") => ENABLED Step(p)
          /\ (InProcessReport(p) /\ call[p].pc = "returned") =>
               call[p].results.status \in { "completed", "completed_with_errors", "failed" })
  /\ [][\A p \in Callers :
          (InProcessReport(p) /\ call'[p].pc # "idle") =>
             Rank(call'[p].pc) > Rank(call[p].pc)]_vars

\* a call in which an exception was raised and that returned a result
C1_Witness ==
  /\ InProcessReport("c1")
  /\ call["c1"].pc = "returned"
  /\ call["c1"].exc \in SynthesizerErrors

\* C2: when an exception escapes a step of process_report, the result
\* returned has status 'failed', its errors are the errors recorded before
\* followed by one entry 'PIPELINE_ERROR: <message>', every step name and
\* payload recorded before the exception is still in it, and this result
\* is the one stored under the file_id.
C2_FailedResultKept ==
  [][\A p \in Callers :
       (call[p].pc = "except" /\ call'[p] # call[p]) =>
          LET old == call[p].results
              new == call'[p].results
          IN  /\ call'[p].pc = "returned"
              /\ new.status = "failed"
              /\ new.errors = Append(old.errors, "PIPELINE_ERROR: " \o call[p].exc)
              /\ new.steps_completed = old.steps_completed
              /\ \A key \in (DOMAIN old) \ { "status", "errors" } :
                   key \in DOMAIN new /\ new[key] = old[key]
              /\ call[p].file_id \in DOMAIN processed_files'
              /\ processed_files'[call[p].file_id] = new]_vars

\* a failed run that had recorded the hash, the text and the narrative
\* before the exception, and whose result is stored
C2_Witness ==
  /\ call["c1"].pc = "returned"
  /\ call["c1"].exc # NoneStr
  /\ call["c1"].results.status = "failed"
  /\ { "file_hash", "extracted_text", "explanation" } \subseteq DOMAIN call["c1"].results
  /\ call["c1"].file_id \in DOMAIN processed_files
  /\ processed_files[call["c1"].file_id] = call["c1"].results

\* C3: the status of a returned result is terminal; it is 'failed' exactly
\* when an exception reached the handler, otherwise 'completed_with_errors'
\* exactly when errors is not empty, otherwise 'completed'; a 'completed'
\* result has no errors and has a certificate.
C3_StatusDetermined ==
  \A p \in Callers :
    (InProcessReport(p) /\ call[p].pc = "returned") =>
       LET r == call[p].results
       IN  /\ r.status \in { "completed", "completed_with_errors", "failed" }
           /\ (r.status = "failed") <=> (call[p].exc # NoneStr)
           /\ (call[p].exc = NoneStr) =>
                ((r.status = "completed_with_errors") <=> (r.errors # << >>))
           /\ (r.status = "completed") =>
                (r.errors = << >> /\ "certificate" \in DOMAIN r)

\* a run that completed with errors, and was not interrupted
C3_Witness ==
  /\ InProcessReport("c1")
  /\ call["c1"].pc = "returned"
  /\ call["c1"].exc = NoneStr
  /\ call["c1"].results.status = "completed_with_errors"
  /\ call["c1"].results.errors = << "OCR_EXTRACTION_FAILED" >>

\* each payload of a result is there only with its step name
PayloadsHaveSteps(r) ==
  /\ "file_hash" \in DOMAIN r => "hash_generation" \in Range(r.steps_completed)
  /\ "extracted_text" \in DOMAIN r => "ocr" \in Range(r.steps_completed)
  /\ "explanation" \in DOMAIN r => "analysis" \in Range(r.steps_completed)
  /\ "certificate" \in DOMAIN r => "certificate" \in Range(r.steps_completed)

\* C4: in every result that is returned or stored, failed runs included,
\* each optional payload (hash, extracted text, narrative, certificate) is
\* present only if the name of its step is in steps_completed.
C4_PayloadsOnlyWithSteps ==
  /\ \A p \in Callers :
       (InProcessReport(p) /\ call[p].pc = "returned") => PayloadsHaveSteps(call[p].results)
  /\ \A id \in DOMAIN processed_files : PayloadsHaveSteps(processed_files[id])

\* a is a prefix of b
IsPrefix(a, b) == Len(a) <= Len(b) /\ a = SubSeq(b, 1, Len(a))

\* the step names in the order of the code (pipeline.py:329, 341, 352, 369)
StepOrder == << "hash_generation", "ocr", "analysis", "certificate" >>

\* the step names as the claim gives them
ClaimedStepOrder == << "hash_generation", "extraction", "analysis", "certificate" >>

\* C5 as stated: steps_completed is at every point a prefix of
\* [hash_generation, extraction, analysis, certificate], and is exactly
\* that sequence when the run ends 'completed'.
C5_StepsPrefixAsClaimed ==
  \A p \in Callers :
    InProcessReport(p) =>
      /\ IsPrefix(call[p].results.steps_completed, ClaimedStepOrder)
      /\ call[p].results.status = "completed" =>
           call[p].results.steps_completed = ClaimedStepOrder

\* C5, amended: steps_completed is append-only within a run and at every
\* point a duplicate-free prefix of [hash_generation, ocr, analysis,
\* certificate] (the extraction step is recorded under the name 'ocr'); a
\* run that ends 'completed' ends with exactly that sequence.
C5_StepsPrefix ==
  /\ [](\A p \in Callers :
          InProcessReport(p) =>
            /\ IsPrefix(call[p].results.steps_completed, StepOrder)
            /\ call[p].results.status = "completed" =>
                 call[p].results.steps_completed = StepOrder)
  /\ [][\A p \in Callers :
          (InProcessReport(p) /\ call'[p].pc # "idle") =>
             IsPrefix(call[p].results.steps_completed, call'[p].results.steps_completed)]_vars

\* a completed run with all four steps
C5_Witness ==
  /\ InProcessReport("c1")
  /\ call["c1"].pc = "returned"
  /\ call["c1"].results.status = "completed"
  /\ call["c1"].results.steps_completed = StepOrder

\* the number of characters of a text that are no whitespace
NonWhitespaceCount(text) ==
  Cardinality({ i \in 1..Len(text) : ~IsSpace(text[i]) })

\* a result of a run whose extraction was refused
ExtractionRefused(r) ==
  /\ r.status # "completed"
  /\ "OCR_EXTRACTION_FAILED" \in Range(r.errors)
  /\ "extracted_text" \notin DOMAIN r
  /\ "explanation" \notin DOMAIN r
  /\ "certificate" \notin DOMAIN r

\* C6 as stated: for every extracted text with fewer than 20 characters
\* that are no whitespace, the result returned is not 'completed', has the
\* error OCR_EXTRACTION_FAILED and has no extracted_text, no narrative and
\* no certificate.
C6_FewNonWhitespaceRefused ==
  \A p \in Callers :
    ( /\ InProcessReport(p)
      /\ call[p].pc = "returned"
      /\ call[p].extracted_text # NoneText
      /\ NonWhitespaceCount(call[p].extracted_text) < MinTextLen )
    => ExtractionRefused(call[p].results)

\* C6, amended: for every extracted text that is empty or has fewer than 20
\* characters once leading and trailing whitespace is stripped, the result
\* returned is not 'completed', has the error OCR_EXTRACTION_FAILED and has
\* no extracted_text, no narrative and no certificate.
C6_ShortStrippedRefused ==
  \A p \in Callers :
    ( /\ InProcessReport(p)
      /\ call[p].pc = "returned"
      /\ call[p].extracted_text # NoneText
      /\ Len(Strip(call[p].extracted_text)) < MinTextLen )
    => ExtractionRefused(call[p].results)

\* a refused text of 20 characters or more, 19 of them once stripped
C6_Witness ==
  /\ InProcessReport("c1")
  /\ call["c1"].pc = "returned"
  /\ call["c1"].extracted_text = OcrShort
  /\ Len(OcrShort) >= MinTextLen
  /\ ExtractionRefused(call["c1"].results)

(***************************************************************************)
(* Properties of explain_text and of the fallback chain.                   *)
(***************************************************************************)
\* the output of a backend passed through the duplicate eliminator and then
\* the canonicalizer
Canonical == [ content \in LlmContents |->
                 ensure_proper_ending(remove_duplicate_content(content)) ]

\* the template for the texts of the model
Templates == [ text \in ExplainTexts |-> generate_simple_fallback(CleanedText(text)) ]

\* the chain has ended with a backend that returned
BackendReturned(p) ==
  /\ call[p].pc = "explained"
  /\ call[p].llm_calls # << >>
  /\ ~Last(call[p].llm_calls).raised

\* all three backends were called and raised
AllBackendsRaised(p) ==
  /\ Len(call[p].llm_calls) = Len(Models)
  /\ \A i \in 1..Len(Models) : call[p].llm_calls[i].raised

\* C7: the chain calls the backends in the order primary, secondary,
\* tertiary, each at most once: the k-th call is to the k-th backend and
\* every call before it raised, no call follows a call that returned, and
\* when the backend that returned gives more than the minimum length after
\* the duplicate eliminator and the canonicalizer, explain_text returns
\* exactly that processed output.
C7_FallbackChainOrder ==
  \A p \in Callers :
    LET calls == call[p].llm_calls
    IN  /\ Len(calls) <= Len(Models)
        /\ \A i \in 1..Len(calls) :
             /\ calls[i].model = Models[i]
             /\ i < Len(calls) => calls[i].raised
        /\ \A k \in 1..Len(Models) :
             call[p].pc = BackendPc[k] =>
               (Len(calls) = k - 1 /\ \A i \in 1..Len(calls) : calls[i].raised)
        /\ (calls # << >> /\ ~Last(calls).raised) =>
             call[p].pc \in { "llm_done", "explained" }
        /\ (call[p].pc = "llm_done" /\ calls # << >> /\ ~Last(calls).raised) =>
             call[p].llm_summary = Canonical[Last(calls).content]
        /\ (BackendReturned(p) /\ Len(Canonical[Last(calls).content]) > MinSummaryLen) =>
             call[p].ret = Canonical[Last(calls).content]

\* the primary backend raised, the secondary returned a long narrative that
\* the post-processing changes, and the tertiary was not called
C7_Witness ==
  /\ BackendReturned("c1")
  /\ Len(call["c1"].llm_calls) = 2
  /\ call["c1"].llm_calls[1].raised
  /\ call["c1"].llm_calls[2].content = LlmLong
  /\ call["c1"].ret = Canonical[LlmLong]
  /\ Canonical[LlmLong] # LlmLong
  /\ Canonical[LlmLong] # remove_duplicate_content(LlmLong)

\* C8: when all three backends raise, explain_text returns the template
\* for its input; whatever the backends do (raise, return an empty, a short
\* or a long content) explain_text returns a string that is not empty, and
\* it never raises.
C8_TemplateWhenAllRaise ==
  \A p \in Callers :
    /\ call[p].pc # "raised"
    /\ call[p].pc = "explained" =>
         /\ call[p].ret # NoneText
         /\ call[p].ret # << >>
         /\ AllBackendsRaised(p) => call[p].ret = Templates[call[p].text]

\* all three backends raised and the template was returned
C8_Witness ==
  /\ call["c1"].pc = "explained"
  /\ AllBackendsRaised("c1")
  /\ call["c1"].ret = Templates[call["c1"].text]

\* C9 as stated: the output of a backend is returned as the narrative if
\* and only if it has at least 100 characters after deduplication and
\* canonicalization; a shorter one gives the template, and no other
\* backend is tried.
C9_AcceptedFrom100 ==
  \A p \in Callers :
    BackendReturned(p) =>
      LET summary == Canonical[Last(call[p].llm_calls).content]
      IN  /\ Len(summary) >= MinSummaryLen <=> call[p].ret = summary
          /\ Len(summary) < MinSummaryLen => call[p].ret = Templates[call[p].text]

\* C9, amended: the output of a backend is returned as the narrative if and
\* only if it has more than 100 characters after deduplication and
\* canonicalization; one of 100 characters or fewer gives the template,
\* and the backend that returned is the last one that was called.
C9_AcceptedAbove100 ==
  \A p \in Callers :
    BackendReturned(p) =>
      LET calls   == call[p].llm_calls
          summary == Canonical[Last(calls).content]
      IN  /\ Len(summary) > MinSummaryLen <=> call[p].ret = summary
          /\ Len(summary) <= MinSummaryLen => call[p].ret = Templates[call[p].text]
          /\ \A i \in 1..(Len(calls) - 1) : calls[i].raised

\* the primary backend returned exactly 100 characters: the template is
\* returned and no other backend was called
C9_Witness ==
  /\ BackendReturned("c1")
  /\ Len(call["c1"].llm_calls) = 1
  /\ call["c1"].llm_calls[1].content = Llm100
  /\ Len(Canonical[Llm100]) = MinSummaryLen
  /\ call["c1"].ret = Templates[call["c1"].text]

\* C10 as stated: for every text with fewer than 20 characters that are no
\* whitespace, explain_text returns the one fixed message and calls no
\* backend.
C10_FewNonWhitespaceShortCircuits ==
  \A p \in Callers :
    ( /\ call[p].pc = "explained"
      /\ call[p].text # NoneText
      /\ NonWhitespaceCount(call[p].text) < MinTextLen )
    => (call[p].ret = NoLegibleTextFile /\ call[p].llm_calls = << >>)

\* C10, amended: for every text that is None, empty or has fewer than 20
\* characters once leading and trailing whitespace is stripped,
\* explain_text returns the one fixed message and calls no backend.
C10_ShortStrippedShortCircuits ==
  \A p \in Callers :
    ( /\ call[p].pc = "explained"
      /\ (~Truthy(call[p].text) \/ Len(Strip(call[p].text)) < MinTextLen) )
    => (call[p].ret = NoLegibleTextFile /\ call[p].llm_calls = << >>)

\* a direct call with a text of 19 characters once stripped
C10_Witness ==
  /\ call["c1"].op = "explain_text"
  /\ call["c1"].pc = "explained"
  /\ call["c1"].text = OcrShort
  /\ call["c1"].ret = NoLegibleTextFile
  /\ call["c1"].llm_calls = << >>

(***************************************************************************)
(* remove_duplicate_content called on its own, step by step                *)
(* (pipeline.py:24-83).                                                    *)
(***************************************************************************)
\* the pieces the input texts are made of: sentences that share 4 of 5
\* words, 5 of 6 words and all words, a sentence of 11 characters with a
\* run of two spaces, and two adjacent headings
PieceMorning ==
  <<
     "T","a","k","e"," ","o","n","e"," ","t","a","b","l","e","t"," ","e","v","e","r","y"," ","m","o",
     "r","n","i","n","g","."," "
  >>
PieceEvening ==
  <<
     "T","a","k","e"," ","o","n","e"," ","t","a","b","l","e","t"," ","e","v","e","r","y"," ","e","v",
     "e","n","i","n","g","."," "
  >>
PiecePleaseMorning ==
  <<
     "P","l","e","a","s","e"," ","t","a","k","e"," ","o","n","e"," ","t","a","b","l","e","t"," ","e",
     "v","e","r","y"," ","m","o","r","n","i","n","g","."," "
  >>
PiecePleaseEvening ==
  <<
     "P","l","e","a","s","e"," ","t","a","k","e"," ","o","n","e"," ","t","a","b","l","e","t"," ","e",
     "v","e","r","y"," ","e","v","e","n","i","n","g","."," "
  >>
PieceSleepDrink ==
  <<
     "S","l","e","e","p"," ","n","o","w","."," ","D","r","i","n","k"," ","w","a","t","e","r"," ","d",
     "a","i","l","y","."," "
  >>
PieceSleepSpaced ==
  <<
     "S","l","e","e","p"," "," ","n","o","w","."," "
  >>
PieceDrinkOften ==
  <<
     "D","r","i","n","k"," ","w","a","t","e","r"," ","o","f","t","e","n"," ","d","a","i","l","y",".",
     " "
  >>
PieceHeadings ==
  <<
     "<","h","2",">","S","u","m","m","a","r","y","<","/","h","2",">","<","h","2",">","D","e","t","a",
     "i","l","s","<","/","h","2",">"," "
  >>

EliminatorPieces ==
  << PieceMorning, PieceEvening, PiecePleaseMorning, PiecePleaseEvening,
     PieceSleepDrink, PieceSleepSpaced, PieceDrinkOften, PieceHeadings >>

\* the pieces chosen by the indices in choice, one after the other
RECURSIVE Concat(_, _, _)
Concat(pieces, choice, i) ==
  IF i > Len(choice) THEN << >>
  ELSE pieces[choice[i]] \o Concat(pieces, choice, i + 1)

\* the texts of at most MaxPieces pieces
EliminatorTexts ==
  { Concat(EliminatorPieces, choice, 1) :
      choice \in UNION { [ 1..n -> 1..Len(EliminatorPieces) ] : n \in 0..MaxPieces } }

InitEliminator ==
  /\ processed_files = EmptyDict
  /\ \E text \in EliminatorTexts :
       call = [ p \in Callers |->
                  IF p = "c1"
                    THEN [ IdleCall EXCEPT
                             !.pc = "rdc_split",
                             !.op = "remove_duplicate_content",
                             !.text = text ]
                    ELSE IdleCall ]
  /\ clock = 0
  /\ uuids = 0
  /\ GROQ_API_KEY = "gsk_default"

\* lines 26-42: an empty text is returned as it is; the text is split
\* into sentences
RDC_Split(p) ==
  /\ call[p].pc = "rdc_split"
  /\ LET c == call[p]
     IN  call' = [ call EXCEPT ![p] =
           IF ~Truthy(c.text)
             THEN [ c EXCEPT !.pc = "rdc_done", !.ret = c.text ]
             ELSE [ c EXCEPT
                      !.pc = "rdc_loop",
                      !.sentences = SplitSentences(c.text, 1),
                      !.unique_sentences = << >>,
                      !.seen_content = {},
                      !.index = 1 ] ]
  /\ UNCHANGED << processed_files, clock, uuids, GROQ_API_KEY >>

\* RDC_Sentence that remembers the key of a sentence it discards
RDC_Sentence_SeesDiscarded(p) ==
  /\ call[p].pc = "rdc_loop"
  /\ call[p].index <= Len(call[p].sentences)
  /\ LET c == call[p]
         sentence == c.sentences[c.index]
         clean_sentence == CleanSentence(sentence)
     IN  call' = [ call EXCEPT ![p] =
           IF Len(clean_sentence) < MinCompareLen
             THEN [ c EXCEPT
                      !.index = @ + 1,
                      !.unique_sentences = Append(@, sentence) ]
           ELSE IF IsDuplicate(clean_sentence, c.seen_content)
             THEN [ c EXCEPT
                      !.index = @ + 1,
                      !.seen_content = @ \cup { clean_sentence } ]
           ELSE [ c EXCEPT
                    !.index = @ + 1,
                    !.seen_content = @ \cup { clean_sentence },
                    !.unique_sentences = Append(@, sentence) ] ]
  /\ UNCHANGED << processed_files, clock, uuids, GROQ_API_KEY >>

\* lines 48-73: one iteration of `for sentence in sentences`
RDC_Sentence(p) ==
  /\ call[p].pc = "rdc_loop"
  /\ call[p].index <= Len(call[p].sentences)
  /\ LET c == call[p]
         sentence == c.sentences[c.index]
         clean_sentence == CleanSentence(sentence)
     IN  call' = [ call EXCEPT ![p] =
           IF Len(clean_sentence) < MinCompareLen
             THEN [ c EXCEPT
                      !.index = @ + 1,
                      !.unique_sentences = Append(@, sentence) ]
           ELSE IF IsDuplicate(clean_sentence, c.seen_content)
             THEN [ c EXCEPT !.index = @ + 1 ]
           ELSE [ c EXCEPT
                    !.index = @ + 1,
                    !.seen_content = @ \cup { clean_sentence },
                    !.unique_sentences = Append(@, sentence) ] ]
  /\ UNCHANGED << processed_files, clock, uuids, GROQ_API_KEY >>

\* lines 75-83: the sentences kept are joined and the result is returned
RDC_Join(p) ==
  /\ call[p].pc = "rdc_loop"
  /\ call[p].index > Len(call[p].sentences)
  /\ LET c == call[p]
         result == JoinSpace(c.unique_sentences, 1)
     IN  call' = [ call EXCEPT ![p] =
           [ c EXCEPT
               !.pc = "rdc_done",
               !.ret = SpaceHeaders(CollapseWhitespace(result), 1) ] ]
  /\ UNCHANGED << processed_files, clock, uuids, GROQ_API_KEY >>

\* the caller passes the text returned to remove_duplicate_content again
RDC_Again(p) ==
  /\ call[p].pc = "rdc_done"
  /\ clock = 0
  /\ clock' = clock + 1
  /\ call' = [ call EXCEPT ![p] =
       [ IdleCall EXCEPT
           !.pc = "rdc_split",
           !.op = "remove_duplicate_content",
           !.text = call[p].ret ] ]
  /\ UNCHANGED << processed_files, uuids, GROQ_API_KEY >>

NextEliminator ==
  \/ RDC_Split("c1")
  \/ RDC_Sentence("c1")
  \/ RDC_Join("c1")
  \/ RDC_Again("c1")

SpecEliminator == InitEliminator /\ [][NextEliminator]_vars

\* C11: the eliminator is idempotent: applied to its own output it returns
\* that output unchanged.
C11_EliminatorIdempotent ==
  \A p \in Callers :
    ( /\ call[p].op = "remove_duplicate_content"
      /\ call[p].pc = "rdc_done"
      /\ clock = 1 )
    => call[p].ret = call[p].text

\* the comparison key of the i-th sentence of a call
KeyOf(p, i) == CleanSentence(call[p].sentences[i])

\* the ratio |A & B| / min(|A|, |B|) of two non-empty word sets compared
\* with OverlapNum / OverlapDen: above, or exactly at
OverlapAbove(A, B) ==
  /\ A # {}
  /\ B # {}
  /\ OverlapDen * Cardinality(A \cap B) > OverlapNum * Min(Cardinality(A), Cardinality(B))

OverlapExactly(A, B) ==
  /\ A # {}
  /\ B # {}
  /\ OverlapDen * Cardinality(A \cap B) = OverlapNum * Min(Cardinality(A), Cardinality(B))

\* C12: in one iteration of the loop, a candidate (a sentence whose key has
\* 15 characters or more) is discarded if and only if the overlap of its
\* words with the words of some retained key is strictly greater than 0.8;
\* at exactly 0.8 it is retained.  A discarded candidate changes nothing,
\* a retained one is appended and its key is remembered.
C12_DiscardedIffAboveThreshold ==
  [][\A p \in Callers :
       ( /\ call[p].pc = "rdc_loop"
         /\ call'[p].pc = "rdc_loop"
         /\ call'[p].index = call[p].index + 1
         /\ Len(KeyOf(p, call[p].index)) >= MinCompareLen )
       => LET c == call[p]
              sentence == c.sentences[c.index]
              A == WordSet(KeyOf(p, c.index))
              above == \E seen \in c.seen_content : OverlapAbove(A, WordSet(seen))
          IN  /\ above =>
                   /\ call'[p].unique_sentences = c.unique_sentences
                   /\ call'[p].seen_content = c.seen_content
              /\ ~above =>
                   /\ call'[p].unique_sentences = Append(c.unique_sentences, sentence)
                   /\ call'[p].seen_content = c.seen_content \cup { KeyOf(p, c.index) }]_vars

\* two sentences that overlap by exactly 0.8 are both retained
C12_Witness ==
  /\ call["c1"].pc = "rdc_loop"
  /\ call["c1"].index = 3
  /\ OverlapExactly(WordSet(KeyOf("c1", 1)), WordSet(KeyOf("c1", 2)))
  /\ call["c1"].unique_sentences = SubSeq(call["c1"].sentences, 1, 2)
  /\ call["c1"].seen_content = { KeyOf("c1", 1), KeyOf("c1", 2) }

\* C13: the sentences retained are a subsequence of the sentences of the
\* input, in their order; a sentence is discarded exactly when an earlier
\* retained sentence overlaps it by more than 0.8, never because of a later
\* sentence or of a sentence that was itself discarded.  K is the set of
\* the indices of the sentences retained among the ones the loop has seen.
C13_RetainedSubsequence ==
  \A p \in Callers :
    (call[p].op = "remove_duplicate_content" /\ call[p].pc = "rdc_loop") =>
      LET c     == call[p]
          n     == c.index - 1
          keys  == [ i \in 1..n |-> CleanSentence(c.sentences[i]) ]
          long  == { i \in 1..n : Len(keys[i]) >= MinCompareLen }
          words == [ i \in 1..n |-> WordSet(keys[i]) ]
          above == { pair \in long \X long :
                       pair[2] < pair[1] /\ OverlapAbove(words[pair[1]], words[pair[2]]) }
      IN  \E K \in SUBSET (1..n) :
            /\ \A i \in 1..n :
                 i \notin K <=> (i \in long /\ \E j \in K : << i, j >> \in above)
            /\ c.unique_sentences = Kept(c.sentences, K, c.sentences)
            /\ c.seen_content = { keys[j] : j \in K \cap long }

\* the second sentence was discarded, and the third, which overlaps the
\* second by more than 0.8 and the first by 0.8, is retained
C13_Witness ==
  /\ call["c1"].pc = "rdc_loop"
  /\ call["c1"].index = 4
  /\ Len(call["c1"].sentences) = 3
  /\ call["c1"].unique_sentences = << call["c1"].sentences[1], call["c1"].sentences[3] >>
  /\ OverlapAbove(WordSet(KeyOf("c1", 3)), WordSet(KeyOf("c1", 2)))
  /\ OverlapExactly(WordSet(KeyOf("c1", 3)), WordSet(KeyOf("c1", 1)))

(***************************************************************************)
(* ensure_proper_ending called on its own (pipeline.py:85-103).            *)
(***************************************************************************)
\* the pieces the narratives are made of: a first section, the third
\* section in two spellings, a paragraph without heading, a section with
\* another heading, whitespace
PieceReport ==
  <<
     "<","h","2",">","W","h","a","t"," ","t","h","e"," ","r","e","p","o","r","t"," ","s","a","y","s",
     "<","/","h","2",">","<","p",">","M","i","l","d"," ","p","n","e","u","m","o","n","i","a",".","<",
     "/","p",">"
  >>
PieceThird ==
  <<
     "<","h","2",">","R","e","c","o","m","m","e","n","d","e","d"," ","n","e","x","t"," ","s","t","e",
     "p","s","<","/","h","2",">","<","p",">","R","e","s","t"," ","a","n","d"," ","f","l","u","i","d",
     "s",".","<","/","p",">"
  >>
PieceThirdUpper ==
  <<
     "<","H","2",">","R","E","C","O","M","M","E","N","D","E","D"," ","N","E","X","T"," ","S","T","E",
     "P","S",":","<","/","H","2",">","<","p",">","F","o","l","l","o","w"," ","u","p",".","<","/","p",
     ">"
  >>
PieceNote ==
  <<
     "<","p",">","A","d","d","i","t","i","o","n","a","l"," ","n","o","t","e",":"," ","s","t","a","y",
     " ","h","y","d","r","a","t","e","d",".","<","/","p",">"
  >>
PieceDisclaimer ==
  <<
     "<","h","2",">","D","i","s","c","l","a","i","m","e","r","<","/","h","2",">","<","p",">","N","o",
     "t"," ","m","e","d","i","c","a","l"," ","a","d","v","i","c","e",".","<","/","p",">"
  >>
PieceBlank ==
  <<
     "\n"," "," "
  >>

CanonicalizerPieces ==
  << PieceReport, PieceThird, PieceThirdUpper, PieceNote, PieceDisclaimer, PieceBlank >>

\* the narratives of at most MaxParagraphs pieces
CanonicalizerTexts ==
  { Concat(CanonicalizerPieces, choice, 1) :
      choice \in UNION { [ 1..n -> 1..Len(CanonicalizerPieces) ] : n \in 0..MaxParagraphs } }

InitCanonicalizer ==
  /\ processed_files = EmptyDict
  /\ \E text \in CanonicalizerTexts :
       call = [ p \in Callers |->
                  IF p = "c1"
                    THEN [ IdleCall EXCEPT
                             !.pc = "epe_call",
                             !.op = "ensure_proper_ending",
                             !.text = text ]
                    ELSE IdleCall ]
  /\ clock = 0
  /\ uuids = 0
  /\ GROQ_API_KEY = "gsk_default"

\* lines 85-103: the call returns
EPE_Apply(p) ==
  /\ call[p].pc = "epe_call"
  /\ call' = [ call EXCEPT ![p] =
       [ @ EXCEPT !.pc = "epe_done", !.ret = ensure_proper_ending(call[p].text) ] ]
  /\ UNCHANGED << processed_files, clock, uuids, GROQ_API_KEY >>

NextCanonicalizer == EPE_Apply("c1")

SpecCanonicalizer == InitCanonicalizer /\ [][NextCanonicalizer]_vars

\* ensure_proper_ending has returned to caller p
EpeDone(p) == call[p].op = "ensure_proper_ending" /\ call[p].pc = "epe_done"

\* the indices at which text has the third-section heading
ThirdHeadingAt(text) == { i \in 1..Len(text) : HeadingEnd(text, i) # 0 }

\* the indices after i at which text has an opening `<h2>`
NextHeadingsAfter(text, i) ==
  { k \in (i + 1)..Len(text) : MatchAtCI(text, k, << "<", "h", "2", ">" >>) }

\* C14 as stated: when the narrative has the third section (heading and
\* content) followed by more paragraphs, the text returned ends exactly at
\* the end of the content of the third section.
C14_EndsAtThirdSection ==
  \A p \in Callers :
    EpeDone(p) =>
      \A i \in 1..Len(call[p].text) :
        ( /\ MatchAt(call[p].text, i, PieceThird)
          /\ \A j \in 1..(i - 1) : j \notin ThirdHeadingAt(call[p].text) )
        => call[p].ret = Strip(SubSeq(call[p].text, 1, i + Len(PieceThird) - 1))

\* C14, amended: when the narrative has the third-section heading, the text
\* returned is the narrative up to the first `<h2>` heading that follows
\* the first third-section heading, stripped of leading and trailing
\* whitespace; when no `<h2>` heading follows, it is the whole narrative
\* stripped, trailing paragraphs included.
C14_EndsAtNextHeading ==
  \A p \in Callers :
    (EpeDone(p) /\ ThirdHeadingAt(call[p].text) # {}) =>
      LET text  == call[p].text
          first == MinOf(ThirdHeadingAt(text))
          next  == NextHeadingsAfter(text, first)
      IN  /\ next # {} => call[p].ret = Strip(SubSeq(text, 1, MinOf(next) - 1))
          /\ next = {} => call[p].ret = Strip(text)

\* the section with another heading that follows the third section is cut
C14_Witness ==
  /\ EpeDone("c1")
  /\ call["c1"].text = PieceReport \o PieceThird \o PieceDisclaimer
  /\ call["c1"].ret = PieceReport \o PieceThird

\* C15: a narrative that has no third-section heading is returned
\* unchanged, character for character, leading and trailing whitespace
\* included.
C15_UnchangedWithoutHeading ==
  \A p \in Callers :
    (EpeDone(p) /\ ThirdHeadingAt(call[p].text) = {}) => call[p].ret = call[p].text

\* a narrative without the heading, with whitespace at both ends
C15_Witness ==
  /\ EpeDone("c1")
  /\ call["c1"].text = PieceBlank \o PieceReport \o PieceBlank
  /\ call["c1"].ret = call["c1"].text
  /\ Strip(call["c1"].text) # call["c1"].text

(***************************************************************************)
(* generate_certificate called on its own (certificate.py:58-110).         *)
(***************************************************************************)
\* the fields the report texts are made of
FieldPatientMaria ==
  <<
     "P","a","t","i","e","n","t",":"," ","m","a","r","i","a"
  >>
FieldLopez ==
  <<
     " ","L","o","p","e","z"
  >>
FieldGarcia ==
  <<
     " ","G","a","r","c","i","a"
  >>
FieldPatient ==
  <<
     "P","a","t","i","e","n","t",":"
  >>
FieldBlank ==
  <<
     " "," "
  >>
FieldNumber ==
  <<
     "1","2","3","4","5"
  >>
FieldNewline ==
  <<
     "\n"
  >>

CertificateFields ==
  << FieldPatientMaria, FieldLopez, FieldGarcia, FieldPatient, FieldBlank,
     FieldNumber, FieldNewline >>

\* the report texts of at most MaxFields fields
CertificateTexts ==
  { Concat(CertificateFields, choice, 1) :
      choice \in UNION { [ 1..n -> 1..Len(CertificateFields) ] : n \in 0..MaxFields } }

InitCertificate ==
  /\ processed_files = EmptyDict
  /\ \E text \in CertificateTexts :
       call = [ p \in Callers |->
                  IF p = "c1"
                    THEN [ IdleCall EXCEPT
                             !.pc = "gc_call",
                             !.op = "generate_certificate",
                             !.text = text,
                             !.file_hash = ReportDigest ]
                    ELSE IdleCall ]
  /\ clock = 0
  /\ uuids = 0
  /\ GROQ_API_KEY = "gsk_default"

\* certificate.py:58-110: the call returns the certificate
GC_Apply(p) ==
  /\ call[p].pc = "gc_call"
  /\ uuids' = uuids + 1
  /\ call' = [ call EXCEPT ![p] =
       [ @ EXCEPT
           !.pc = "gc_done",
           !.certificate_data =
             generate_certificate(call[p].text, call[p].file_hash, call[p].explanation,
                                  Uuid(uuids + 1), clock) ] ]
  /\ UNCHANGED << processed_files, clock, GROQ_API_KEY >>

NextCertificate == GC_Apply("c1")

SpecCertificate == InitCertificate /\ [][NextCertificate]_vars

\* the shape the initials have by the claim: the upper-case first letters
\* of the first tokens of a name, two at most and one at least
LetterInitials(initials) ==
  /\ Len(initials) \in 1..MaxInitials
  /\ \A i \in 1..Len(initials) : initials[i] \in Range(UpperCase)

\* C16: in every certificate the initials are the upper-case first letters
\* of the first two tokens of the extracted patient name, or the fixed
\* placeholder when no name was found; no other value is produced.  (A
\* name of one token is allowed its one letter here.)
C16_InitialsFromName ==
  \A p \in Callers :
    (call[p].op = "generate_certificate" /\ call[p].pc = "gc_done") =>
      LET initials == call[p].certificate_data.patient_info.initials
      IN  \/ initials = PlaceholderInitials
          \/ LetterInitials(initials)

(***************************************************************************)
(* The store: process_report, get_results and clear_results                *)
(* (pipeline.py:383-404).  Caller c1 processes reports and clears, caller  *)
(* c2 looks results up, also while a report is processed.                  *)
(***************************************************************************)
\* a path that ends with a separator: its base name is empty
TrailingSlashPath == << "..", "uploads", "" >>
StorePaths == { ReportPath, TrailingSlashPath }

\* the identifiers looked up and cleared
StoreIds == { Basename(path) : path \in StorePaths } \cup (FileIdArgs \ { NoneStr })

\* the file_id arguments of clear_results: omitted (None), or an identifier
ClearArgs == StoreIds \cup { NoneStr }

\* the image of the store gives no text
StoreOcrResponses == { [ kind |-> "text", text |-> OcrEmpty ] }

\* None where get_results returns no dict
NoneDict == EmptyDict

\* lines 394-396: get_results
GR_Call(p, file_id) ==
  /\ call[p].pc = "idle"
  /\ call' = [ call EXCEPT ![p] =
       [ IdleCall EXCEPT
           !.pc = "returned",
           !.op = "get_results",
           !.file_id = file_id,
           !.results = IF file_id \in DOMAIN processed_files
                         THEN processed_files[file_id]
                         ELSE NoneDict ] ]
  /\ UNCHANGED << processed_files, clock, uuids, GROQ_API_KEY >>

\* lines 398-404: clear_results
CR_Call(p, file_id) ==
  /\ call[p].pc = "idle"
  /\ call' = [ call EXCEPT ![p] =
       [ IdleCall EXCEPT !.pc = "returned", !.op = "clear_results", !.file_id = file_id ] ]
  /\ processed_files' =
       IF file_id # NoneStr /\ file_id # ""
         THEN (IF file_id \in DOMAIN processed_files
                 THEN Del(processed_files, file_id)
                 ELSE processed_files)
         ELSE EmptyDict
  /\ UNCHANGED << clock, uuids, GROQ_API_KEY >>

InitStore ==
  /\ processed_files = EmptyDict
  /\ call = [ p \in Callers |-> IdleCall ]
  /\ clock = 0
  /\ uuids = 0
  /\ GROQ_API_KEY = "gsk_default"

NextStore ==
  \/ \E file_path \in StorePaths, file_id \in FileIdArgs :
       StartReport("c1", file_path, file_id, MaxStoreRuns)
  \/ PR_Hash("c1")
  \/ \E response \in StoreOcrResponses : PR_Extract("c1", response)
  \/ PR_Analysis("c1")
  \/ PR_Certificate("c1")
  \/ PR_Final("c1")
  \/ PR_Except("c1")
  \/ \E file_id \in ClearArgs : CR_Call("c1", file_id)
  \/ Return("c1")
  \/ \E file_id \in StoreIds : GR_Call("c2", file_id)
  \/ Return("c2")

SpecStore == InitStore /\ [][NextStore]_vars

\* the step is the return of a process_report of caller p
ReportReturns(p) ==
  /\ InProcessReport(p)
  /\ call[p].pc \in { "final", "except" }
  /\ call'[p].pc = "returned"

\* the step is a call of operation op by caller p
Calls(p, op) == call[p].pc = "idle" /\ call'[p].op = op

\* C17: get_results(id) returns the entry of the store for id, None when
\* there is none, and changes nothing; the store changes only when a
\* process_report returns, which sets the entry of its file_id to the
\* result returned and no other, and in clear_results; clear_results(id)
\* for a stored id removes exactly that entry; clear_results() removes all.
\* So the entry for id is the result of the most recent process_report for
\* id that was not cleared since.
C17_StoreOperations ==
  [][\A p \in Callers :
       /\ Calls(p, "get_results") =>
            /\ processed_files' = processed_files
            /\ call'[p].results =
                 IF call'[p].file_id \in DOMAIN processed_files
                   THEN processed_files[call'[p].file_id]
                   ELSE NoneDict
       /\ ReportReturns(p) =>
            processed_files' = Put(processed_files, call[p].file_id, call'[p].results)
       /\ (Calls(p, "clear_results") /\ call'[p].file_id \in DOMAIN processed_files) =>
            processed_files' = Del(processed_files, call'[p].file_id)
       /\ (Calls(p, "clear_results") /\ call'[p].file_id = NoneStr) =>
            processed_files' = EmptyDict
       /\ ( /\ ~ReportReturns(p)
            /\ ~Calls(p, "clear_results")
            /\ call'[p] # call[p] )
          => processed_files' = processed_files]_vars

\* C17 for the identifiers that are not empty
C17_NonEmptyIds ==
  [][\A p \in Callers :
       /\ Calls(p, "get_results") =>
            /\ processed_files' = processed_files
            /\ call'[p].results =
                 IF call'[p].file_id \in DOMAIN processed_files
                   THEN processed_files[call'[p].file_id]
                   ELSE NoneDict
       /\ ReportReturns(p) =>
            processed_files' = Put(processed_files, call[p].file_id, call'[p].results)
       /\ ( /\ Calls(p, "clear_results")
            /\ call'[p].file_id \in DOMAIN processed_files
            /\ call'[p].file_id # "" ) =>
            processed_files' = Del(processed_files, call'[p].file_id)
       /\ (Calls(p, "clear_results") /\ call'[p].file_id \in { NoneStr, "" }) =>
            processed_files' = EmptyDict
       /\ ( /\ ~ReportReturns(p)
            /\ ~Calls(p, "clear_results")
            /\ call'[p] # call[p] )
          => processed_files' = processed_files]_vars

\* a process_report is between its start and its return
Running(p) ==
  /\ InProcessReport(p)
  /\ call[p].pc \notin { "idle", "returned" }

\* C18: the entry of the store for a file_id is created when process_report
\* starts: a lookup during the run finds an entry with status 'processing'.
C18_EntryCreatedAtStart ==
  [][\A p, q \in Callers :
       ( /\ Running(p)
         /\ Calls(q, "get_results")
         /\ call'[q].file_id = call[p].file_id )
       => /\ call'[q].results # NoneDict
          /\ call'[q].results.status = "processing"]_vars

(***************************************************************************)
(* Two runs of process_report on identical inputs.  Caller c1 runs         *)
(* process_report against any environment; caller c2 runs it on the same   *)
(* file, one step behind, and the environment answers c2 as it answered    *)
(* c1: the same extractor output, the same outcome of each backend, the    *)
(* same outcome of the certificate synthesizer (whose code reads nothing   *)
(* but its arguments, uuid4 and the clock).  The file_id of c2, the uuid4  *)
(* values and the clock are its own.                                       *)
(***************************************************************************)
InitRepeat == Init

\* the file_id arguments of the two runs: omitted, or given
RepeatIds == { NoneStr, "a1b2c3d4" }

\* the completions of the backends in the two runs: one that is accepted,
\* one that is too short, one that the eliminator changes
RepeatContents == { LlmLong, Llm100, LlmDuplicated }

\* c1 takes a step when c2 has caught up
Lead ==
  /\ call["c1"].pc = call["c2"].pc
  /\ \/ \E file_path \in FilePaths, file_id \in RepeatIds :
          StartReport("c1", file_path, file_id, 2 * MaxPairs - 1)
     \/ PR_Hash("c1")
     \/ \E response \in OcrResponses : PR_Extract("c1", response)
     \/ PR_Analysis("c1")
     \/ ET_Enter("c1")
     \/ \E k \in 1..Len(Models), content \in RepeatContents : LLM_Returns("c1", k, content)
     \/ \E k \in 1..Len(Models) : LLM_Raises("c1", k)
     \/ ET_Summary("c1")
     \/ PR_Explained("c1")
     \/ PR_Certificate("c1")
     \/ \E message \in SynthesizerErrors : PR_CertificateRaises("c1", message)
     \/ PR_CertificateHtml("c1")
     \/ \E message \in SynthesizerErrors : PR_CertificateHtmlRaises("c1", message)
     \/ PR_Final("c1")
     \/ PR_Except("c1")
     \/ Return("c1")

\* c2 takes the step c1 has taken, with the answers c1 was given
Follow ==
  /\ call["c1"].pc # call["c2"].pc
  /\ LET lead == call["c1"]
     IN  \/ \E file_id \in RepeatIds :
              StartReport("c2", lead.file_path, file_id, 2 * MaxPairs)
         \/ PR_Hash("c2")
         \/ \E response \in OcrResponses :
              /\ extract_text(call["c2"].file_path, response) = lead.extracted_text
              /\ PR_Extract("c2", response)
         \/ PR_Analysis("c2")
         \/ ET_Enter("c2")
         \/ \E k \in 1..Len(lead.llm_calls) :
              /\ ~lead.llm_calls[k].raised
              /\ LLM_Returns("c2", k, lead.llm_calls[k].content)
         \/ \E k \in 1..Len(lead.llm_calls) :
              /\ lead.llm_calls[k].raised
              /\ LLM_Raises("c2", k)
         \/ ET_Summary("c2")
         \/ PR_Explained("c2")
         \/ /\ lead.pc # "except"
            /\ PR_Certificate("c2")
         \/ /\ lead.pc = "except"
            /\ PR_CertificateRaises("c2", lead.exc)
         \/ /\ lead.pc # "except"
            /\ PR_CertificateHtml("c2")
         \/ /\ lead.pc = "except"
            /\ PR_CertificateHtmlRaises("c2", lead.exc)
         \/ PR_Final("c2")
         \/ PR_Except("c2")
         \/ Return("c2")

NextRepeat == Lead \/ Follow

SpecRepeat == InitRepeat /\ [][NextRepeat]_vars

\* the value of a key of a dict of texts, None without the key
TextOf(dict, key) == IF key \in DOMAIN dict THEN dict[key] ELSE NoneText

\* a certificate without its generated identifier and its timestamp
CertificateContent(certificate) ==
  [ document_hash         |-> certificate.document_hash,
    verification_address  |-> certificate.verification_address,
    patient_info          |-> certificate.patient_info,
    ai_analysis_available |-> certificate.ai_analysis_available,
    certificate_status    |-> certificate.certificate_status ]

\* a rendered certificate without its generated identifier and its timestamp
HtmlContent(html) ==
  [ hash_head          |-> html.hash_head,
    hash_tail          |-> html.hash_tail,
    initials           |-> html.initials,
    certificate_status |-> html.certificate_status ]

\* two results agree on everything but identifiers and timestamps
SameContent(r1, r2) ==
  /\ TextOf(r1, "file_hash") = TextOf(r2, "file_hash")
  /\ TextOf(r1, "extracted_text") = TextOf(r2, "extracted_text")
  /\ TextOf(r1, "explanation") = TextOf(r2, "explanation")
  /\ r1.steps_completed = r2.steps_completed
  /\ r1.errors = r2.errors
  /\ r1.status = r2.status
  /\ ("certificate" \in DOMAIN r1) = ("certificate" \in DOMAIN r2)
  /\ ("certificate" \in DOMAIN r1 /\ "certificate" \in DOMAIN r2) =>
       CertificateContent(r1.certificate) = CertificateContent(r2.certificate)
  /\ ("certificate_html" \in DOMAIN r1) = ("certificate_html" \in DOMAIN r2)
  /\ ("certificate_html" \in DOMAIN r1 /\ "certificate_html" \in DOMAIN r2) =>
       HtmlContent(r1.certificate_html) = HtmlContent(r2.certificate_html)

\* both runs of a pair have returned
BothReturned ==
  \A p \in Callers : InProcessReport(p) /\ call[p].pc = "returned"

ExtractionFailed(p) ==
  /\ InProcessReport(p)
  /\ call[p].pc # "returned"
  /\ "OCR_EXTRACTION_FAILED" \in Range(call[p].results.errors)

\* the run of caller p is at the certificate stage and its analysis has
\* not completed
AnalysisNotCompleted(p) ==
  /\ InProcessReport(p)
  /\ call[p].pc = "certificate"
  /\ "analysis" \notin Range(call[p].results.steps_completed)

\* the step invokes neither the fallback chain nor the synthesizer
NothingInvoked(p) ==
  /\ call'[p].pc \in { "certificate", "final", "returned" }
  /\ call'[p].llm_calls = << >>
  /\ call'[p].explanation = NoneText
  /\ call'[p].certificate_data = EmptyDict
  /\ uuids' = uuids

\* C20: a stage whose prerequisite did not complete is not attempted and
\* adds no error.  After a failed extraction no step of the run calls
\* explain_text, a backend or the synthesizer, and errors stays
\* [OCR_EXTRACTION_FAILED]; at the certificate stage without a completed
\* analysis the synthesizer is not called and the errors are unchanged.
C20_SkippedStagesNotAttempted ==
  [][\A p \in Callers :
       /\ (ExtractionFailed(p) /\ call'[p] # call[p]) =>
            /\ NothingInvoked(p)
            /\ call'[p].results.errors = << "OCR_EXTRACTION_FAILED" >>
            /\ call'[p].results.steps_completed = << "hash_generation" >>
       /\ (AnalysisNotCompleted(p) /\ call'[p] # call[p]) =>
            /\ call'[p].pc = "final"
            /\ uuids' = uuids
            /\ call'[p].certificate_data = EmptyDict
            /\ call'[p].results = call[p].results]_vars

\* a run whose extraction failed has returned: one error, no explanation,
\* no certificate, no uuid4 drawn
C20_Witness ==
  /\ InProcessReport("c1")
  /\ call["c1"].pc = "returned"
  /\ call["c1"].results.errors = << "OCR_EXTRACTION_FAILED" >>
  /\ call["c1"].results.status = "completed_with_errors"
  /\ "explanation" \notin DOMAIN call["c1"].results
  /\ "certificate" \notin DOMAIN call["c1"].results
  /\ uuids = 0

(***************************************************************************)
(* Failures inside the certificate stage (pipeline.py:359-392), under Spec. *)
(***************************************************************************)
\* the run of caller p has returned after the synthesizer raised
SynthesizerRaised(p) ==
  /\ InProcessReport(p)
  /\ call[p].pc = "returned"
  /\ call[p].exc \in SynthesizerErrors

\* C21: a failure inside a stage is recorded as the error of that stage and
\* the run continues to its final status: when the certificate synthesizer
\* raises, errors contains CERTIFICATE_GENERATION_FAILED, the status is
\* 'completed_with_errors', and the hash, the extracted text and the
\* narrative are kept.
C21_SynthesizerFailureRecovered ==
  \A p \in Callers :
    SynthesizerRaised(p) =>
      /\ "CERTIFICATE_GENERATION_FAILED" \in Range(call[p].results.errors)
      /\ call[p].results.status = "completed_with_errors"
      /\ { "file_hash", "extracted_text", "explanation" } \subseteq DOMAIN call[p].results

(***************************************************************************)
(* ensure_proper_ending on narratives with several third-section headings, *)
(* under SpecCanonicalizer.                                                *)
(***************************************************************************)
\* the last index at which text has the third-section heading
LastThirdHeading(text) == MaxOf(ThirdHeadingAt(text))

\* C22: when the third-section heading occurs more than once, the
\* canonicalizer anchors on the last occurrence: the text returned is the
\* narrative up to the end of the section of the last occurrence (up to
\* whitespace at its ends), the earlier occurrences and their content
\* included.
C22_AnchorsOnLastHeading ==
  \A p \in Callers :
    (EpeDone(p) /\ Cardinality(ThirdHeadingAt(call[p].text)) > 1) =>
      LET text == call[p].text
          last == LastThirdHeading(text)
      IN  call[p].ret = Strip(SubSeq(text, 1, SectionEnd(text, HeadingEnd(text, last)) - 1))

(***************************************************************************)
(* The extractor fails internally (ocr.py:24-26, pipeline.py:332-343),     *)
(* under Spec.                                                             *)
(***************************************************************************)
\* the OCR library raised in the run of caller p: extract_text has
\* returned the text of its handler
LibraryRaised(p) ==
  /\ InProcessReport(p)
  /\ call[p].extracted_text = extract_text(call[p].file_path,
                                           [ kind |-> "raise", text |-> OcrFailure ])

\* C23: when the OCR library raises, the value extract_text returns is
\* empty or shorter than 20 characters when stripped, OCR_EXTRACTION_FAILED
\* is recorded, and the value is not used as extracted text: the step
\* 'ocr' is not recorded, no analysis is made and no certificate generated.
C23_LibraryFailureRefused ==
  \A p \in Callers :
    LibraryRaised(p) =>
      /\ Len(Strip(call[p].extracted_text)) < MinTextLen
      /\ "OCR_EXTRACTION_FAILED" \in Range(call[p].results.errors)
      /\ "ocr" \notin Range(call[p].results.steps_completed)
      /\ "extracted_text" \notin DOMAIN call[p].results
      /\ "explanation" \notin DOMAIN call[p].results
      /\ "certificate" \notin DOMAIN call[p].results

(***************************************************************************)
(* explain_text called on texts around the limit of the request            *)
(* (pipeline.py:250-290).                                                  *)
(***************************************************************************)
\* the arguments of explain_text: short ones, with whitespace runs and
\* non-ASCII characters, one of the length of the limit, one longer
LimitTexts == { OcrValid, OcrSpaced, OcrNonAscii } \cup LongTexts

InitExplain ==
  /\ processed_files = EmptyDict
  /\ call = [ p \in Callers |-> IdleCall ]
  /\ clock = 0
  /\ uuids = 0
  /\ GROQ_API_KEY = "gsk_default"

NextExplain ==
  \/ \E text \in LimitTexts : StartExplain("c1", text, MaxExplainRuns)
  \/ ET_Enter("c1")
  \/ \E k \in 1..Len(Models), content \in LlmContents : LLM_Returns("c1", k, content)
  \/ \E k \in 1..Len(Models) : LLM_Raises("c1", k)
  \/ ET_Summary("c1")
  \/ Return("c1")

SpecExplain == InitExplain /\ [][NextExplain]_vars

SessionIds == << "1c9e4b7a", "d02f6a31", "7b55e0c8", "e46a09f2" >>
SessionId(n) == SessionIds[((n - 1) % Len(SessionIds)) + 1]

\* the values store_report_hash returns (blockchain.py:35-57) and the
\* messages of the exceptions it raises
TxHashes == { "0x9f3c41aa", "0x27b80e5d" }
LedgerErrors == { "insufficient funds for gas" }

\* json.dumps(certificate): the keys and values in the order of the dict
CertificateKeys ==
  << "certificate_id", "document_hash", "verification_address", "timestamp",
     "patient_info", "ai_analysis_available", "certificate_status" >>
JsonDumps(certificate) ==
  [ i \in 1..Len(CertificateKeys) |-> << CertificateKeys[i], certificate[CertificateKeys[i]] >> ]

\* json.loads(text): a new dict of the keys and values of the text
JsonLoads(text) ==
  [ key \in { text[i][1] : i \in DOMAIN text } |->
      text[CHOOSE i \in DOMAIN text : text[i][1] = key][2] ]

\* d.get(key) of results into the template values
Copy(context, results, key, as) ==
  IF key \in DOMAIN results THEN Put(context, as, results[key]) ELSE context

\* app.py:60-73: an upload starts the pipeline under a new session id
IX_Upload(p) ==
  StartReport(p, ReportPath, SessionId(clock + 1), MaxUploads)

\* app.py:73-88: process_report has returned; the page shows the hash and
\* the certificate of the result
IX_Render(p) ==
  /\ InProcessReport(p)
  /\ call[p].pc = "returned"
  /\ LET results == call[p].results
         context ==
           IF results.status \in { "completed", "completed_with_errors" }
             THEN Copy(Copy(Copy(EmptyDict, results, "file_hash", "file_hash"),
                            results, "certificate", "certificate"),
                       results, "certificate_html", "certificate_html")
             ELSE EmptyDict
     IN  call' = [ call EXCEPT ![p] =
           [ IdleCall EXCEPT
               !.pc = "page",
               !.op = "index",
               !.file_id = call[p].file_id,
               !.results = context ] ]
  /\ UNCHANGED << processed_files, clock, uuids, GROQ_API_KEY >>

\* IX_StoreHash that writes the address into the certificate of the stored
\* result
IX_StoreHash_InPlace(p, tx_hash) ==
  /\ call[p].pc = "page"
  /\ "file_hash" \in DOMAIN call[p].results
  /\ "certificate" \in DOMAIN call[p].results
  /\ call[p].file_id \in DOMAIN processed_files
  /\ LET certificate ==
           [ processed_files[call[p].file_id].certificate
               EXCEPT !.verification_address = tx_hash ]
     IN  /\ processed_files' =
              [ processed_files EXCEPT
                  ![call[p].file_id] = Put(@, "certificate", certificate) ]
         /\ call' = [ call EXCEPT ![p] =
              [ @ EXCEPT
                  !.results =
                    Put(Put(Put(Put(EmptyDict, "file_hash", call[p].results.file_hash),
                                "tx_hash", tx_hash),
                            "certificate", certificate),
                        "certificate_html", generate_certificate_html(certificate)) ] ]
  /\ UNCHANGED << clock, uuids, GROQ_API_KEY >>

\* app.py:91-106: the hash of the page is written to the ledger, and the
\* certificate of the form, when there is one, is loaded and given the
\* address
IX_StoreHash(p, tx_hash) ==
  /\ call[p].pc = "page"
  /\ "file_hash" \in DOMAIN call[p].results
  /\ LET form == call[p].results
         context == Put(Put(EmptyDict, "file_hash", form.file_hash), "tx_hash", tx_hash)
     IN  call' = [ call EXCEPT ![p] =
           [ @ EXCEPT
               !.results =
                 IF "certificate" \in DOMAIN form
                   THEN LET cert_data ==
                              [ JsonLoads(JsonDumps(form.certificate))
                                  EXCEPT !.verification_address = tx_hash ]
                        IN  Put(Put(context, "certificate", cert_data),
                                "certificate_html", generate_certificate_html(cert_data))
                   ELSE context ] ]
  /\ UNCHANGED << processed_files, clock, uuids, GROQ_API_KEY >>

\* app.py:98 and 108-110: store_report_hash raises; the page shows the
\* message and no certificate
IX_StoreHashRaises(p, message) ==
  /\ call[p].pc = "page"
  /\ "file_hash" \in DOMAIN call[p].results
  /\ call' = [ call EXCEPT ![p] =
       [ @ EXCEPT
           !.results = Put(Put(EmptyDict, "file_hash", call[p].results.file_hash),
                           "tx_hash", "Error: " \o message) ] ]
  /\ UNCHANGED << processed_files, clock, uuids, GROQ_API_KEY >>

\* the session leaves its page
IX_Close(p) ==
  /\ call[p].pc = "page"
  /\ call' = [ call EXCEPT ![p] = IdleCall ]
  /\ UNCHANGED << processed_files, clock, uuids, GROQ_API_KEY >>

InitAttach ==
  /\ processed_files = EmptyDict
  /\ call = [ p \in Callers |-> IdleCall ]
  /\ clock = 0
  /\ uuids = 0
  /\ GROQ_API_KEY = ""

NextAttach ==
  \E p \in Callers :
    \/ IX_Upload(p)
    \/ PR_Hash(p)
    \/ PR_Extract(p, [ kind |-> "text", text |-> OcrValid ])
    \/ PR_Analysis(p)
    \/ ET_Enter(p)
    \/ PR_Explained(p)
    \/ PR_Certificate(p)
    \/ PR_CertificateHtml(p)
    \/ PR_Final(p)
    \/ IX_Render(p)
    \/ \E tx_hash \in TxHashes : IX_StoreHash(p, tx_hash)
    \/ \E message \in LedgerErrors : IX_StoreHashRaises(p, message)
    \/ IX_Close(p)

SpecAttach == InitAttach /\ [][NextAttach]_vars

\* the step is a ledger write of the session of caller p
LedgerStep(p) ==
  /\ call[p].pc = "page"
  /\ call'[p].pc = "page"
  /\ "tx_hash" \in DOMAIN call'[p].results
  /\ call'[p] # call[p]

\* C25: attaching the verification address after a ledger write that
\* succeeded gives the page a new certificate, the certificate of the form
\* with the address, and changes neither the results of the store (the
\* certificate of the session included) nor anything of another session;
\* when the ledger write fails the page has no certificate and no
\* certificate is changed.
C25_AttachLeavesStoreUnchanged ==
  [][\A p \in Callers :
       LedgerStep(p) =>
         /\ processed_files' = processed_files
         /\ \A q \in Callers \ { p } : call'[q] = call[q]
         /\ ( /\ call'[p].results.tx_hash \in TxHashes
              /\ "certificate" \in DOMAIN call[p].results ) =>
              /\ "certificate" \in DOMAIN call'[p].results
              /\ call'[p].results.certificate =
                   [ call[p].results.certificate
                       EXCEPT !.verification_address = call'[p].results.tx_hash ]
         /\ call'[p].results.tx_hash \notin TxHashes =>
              "certificate" \notin DOMAIN call'[p].results]_vars

\* the page of c1 has a certificate with an address of the ledger, the
\* certificate stored for its session and the certificate of the page of
\* c2 have none
C25_Witness ==
  /\ call["c1"].pc = "page"
  /\ call["c2"].pc = "page"
  /\ "certificate" \in DOMAIN call["c1"].results
  /\ "certificate" \in DOMAIN call["c2"].results
  /\ call["c1"].results.certificate.verification_address \in TxHashes
  /\ call["c2"].results.certificate.verification_address = "Not verified on blockchain"
  /\ call["c1"].file_id \in DOMAIN processed_files
  /\ processed_files[call["c1"].file_id].certificate.verification_address
       = "Not verified on blockchain"

(***************************************************************************)
(* extract_medical_codes (certificate.py:18-33).                           *)
(***************************************************************************)
IsDigit(c) == c \in Range(Digit)
IsUpper(c) == c \in Range(UpperCase)
\* the class \w on the characters of the model
IsWordChar(c) == IsLetter(c) \/ IsDigit(c) \/ c = "_"

\* the elements of a set of indices in increasing order
Ascending(at) ==
  [ k \in 1..Cardinality(at) |-> CHOOSE i \in at : Cardinality({ j \in at : j <= i }) = k ]

\* `[A-Z]\d{2}` at index i.  The pattern of line 22 has one letter, at its
\* start, and its optional brackets are no letters: two matches never
\* overlap, and findall returns the group of every such index.
IcdAt(s, i) ==
  /\ i + 2 <= Len(s)
  /\ IsUpper(s[i])
  /\ IsDigit(s[i + 1])
  /\ IsDigit(s[i + 2])

\* the group `[A-Z]\d{2}(?:\.\d{1,2})?` matched at index i: the greedy
\* optional part takes a period with one or two digits
IcdCode(s, i) ==
  IF i + 4 <= Len(s) /\ s[i + 3] = "." /\ IsDigit(s[i + 4])
    THEN IF i + 5 <= Len(s) /\ IsDigit(s[i + 5])
           THEN SubSeq(s, i, i + 5)
           ELSE SubSeq(s, i, i + 4)
    ELSE SubSeq(s, i, i + 2)

\* re.findall of line 22
FindIcd(text) ==
  LET at == Ascending({ i \in 1..Len(text) : IcdAt(text, i) })
  IN  [ k \in 1..Len(at) |-> IcdCode(text, at[k]) ]

\* `\b(\d{5})\b` at index i
CptAt(s, i) ==
  /\ i + CptLen - 1 <= Len(s)
  /\ \A k \in i..(i + CptLen - 1) : IsDigit(s[k])
  /\ i = 1 \/ ~IsWordChar(s[i - 1])
  /\ i + CptLen > Len(s) \/ ~IsWordChar(s[i + CptLen])

\* re.findall of line 25
FindCpt(text) ==
  LET at == Ascending({ i \in 1..Len(text) : CptAt(text, i) })
  IN  [ k \in 1..Len(at) |-> SubSeq(text, at[k], at[k] + CptLen - 1) ]

\* re.search(r'\d{2}/\d{2}/\d{4}', text) finds a match
SearchDate(text) ==
  \E i \in 1..(Len(text) - 9) :
    /\ \A k \in { 0, 1, 3, 4, 6, 7, 8, 9 } : IsDigit(text[i + k])
    /\ text[i + 2] = "/"
    /\ text[i + 5] = "/"

\* FilterCpt that tests each code, not the text
FilterCpt_PerToken(text, cpt_codes) ==
  SelectSeq(cpt_codes, LAMBDA code : ~SearchDate(code))

\* line 28: the codes are kept when the text has no date
FilterCpt(text, cpt_codes) ==
  IF SearchDate(text) THEN << >> ELSE cpt_codes

extract_medical_codes(text) ==
  [ icd10 |-> Take(FindIcd(text), MaxCodes),
    cpt   |-> Take(FilterCpt(text, FindCpt(text)), MaxCodes) ]

CodesIcd ==
  <<
     "J","1","8",".","9"," ","E","1","1",".","6","5"," ","I","1","0"," "
  >>
CodesIcdBracketed ==
  <<
     "(","K","2","1",".","0",")"," ","[","M","5","4",".","5","]"," ","Z","0","0"," "
  >>
CodesCpt ==
  <<
     "9","9","2","1","3"," ","9","9","2","1","4"," ","9","9","2","1","5"," "
  >>
CodesDate ==
  <<
     "S","e","e","n"," ","0","3","/","1","4","/","2","0","2","4",","," ","r","o","o","m"," ","3","6",
     "4","1","5","."," "
  >>
CodesNoToken ==
  <<
     "I","D"," ","A","1","2","3","4","5",","," ","l","o","t"," ","1","2","3","4","5","6","."," "
  >>
CodesOneCpt ==
  <<
     "3","6","4","1","5"," "
  >>

CodePieces ==
  << CodesIcd, CodesIcdBracketed, CodesCpt, CodesDate, CodesNoToken, CodesOneCpt >>

\* the texts of at most MaxCodePieces pieces
CodeTexts ==
  { Concat(CodePieces, choice, 1) :
      choice \in UNION { [ 1..n -> 1..Len(CodePieces) ] : n \in 0..MaxCodePieces } }

InitCodes ==
  /\ processed_files = EmptyDict
  /\ \E text \in CodeTexts :
       call = [ p \in Callers |->
                  IF p = "c1"
                    THEN [ IdleCall EXCEPT
                             !.pc = "emc_call",
                             !.op = "extract_medical_codes",
                             !.text = text ]
                    ELSE IdleCall ]
  /\ clock = 0
  /\ uuids = 0
  /\ GROQ_API_KEY = "gsk_default"

\* extract_medical_codes is applied to the text
EMC_Apply(p) ==
  /\ call[p].pc = "emc_call"
  /\ call' = [ call EXCEPT ![p] =
       [ @ EXCEPT !.pc = "emc_done", !.results = extract_medical_codes(call[p].text) ] ]
  /\ UNCHANGED << processed_files, clock, uuids, GROQ_API_KEY >>

NextCodes == EMC_Apply("c1")

SpecCodes == InitCodes /\ [][NextCodes]_vars

EmcDone(p) == call[p].op = "extract_medical_codes" /\ call[p].pc = "emc_done"

\* the digit runs of text that are exactly five digits between characters
\* that are no letters, digits or underscores, in text order
FiveDigitTokens(text) ==
  LET starts == { i \in 1..Len(text) :
                    /\ IsDigit(text[i])
                    /\ i = 1 \/ ~IsWordChar(text[i - 1]) }
      tokens == { i \in starts :
                    /\ i + 4 <= Len(text)
                    /\ \A k \in 1..4 : IsDigit(text[i + k])
                    /\ i + 5 > Len(text) \/ ~IsWordChar(text[i + 5]) }
      order  == Ascending(tokens)
  IN  [ k \in 1..Len(order) |-> SubSeq(text, order[k], order[k] + 4) ]

RaceId == "a1b2c3d4"

\* the answers of the OCR library in the race: a text, no text, an exception
RaceOcrResponses ==
  { [ kind |-> "text", text |-> OcrValid ],
    [ kind |-> "text", text |-> OcrEmpty ],
    [ kind |-> "raise", text |-> OcrFailure ] }

InitRace ==
  /\ processed_files = EmptyDict
  /\ call = [ p \in Callers |-> IdleCall ]
  /\ clock = 0
  /\ uuids = 0
  /\ GROQ_API_KEY = ""

NextRace ==
  \E p \in Callers :
    \/ \E file_path \in FilePaths : StartReport(p, file_path, RaceId, MaxRaceRuns)
    \/ PR_Hash(p)
    \/ \E response \in RaceOcrResponses : PR_Extract(p, response)
    \/ PR_Analysis(p)
    \/ ET_Enter(p)
    \/ PR_Explained(p)
    \/ PR_Certificate(p)
    \/ PR_CertificateHtml(p)
    \/ PR_Final(p)
    \/ PR_Except(p)
    \/ Return(p)

SpecRace == InitRace /\ [][NextRace]_vars

\* the run of caller p has returned a result
Finished(p) == InProcessReport(p) /\ call[p].pc = "returned"

\* C27: under every interleaving of two process_report calls with the same
\* file_id each call returns its own result, complete (a terminal status,
\* its own path and timestamp, untouched by the steps of the other call),
\* and the entry of the store is the whole result of the call that stored
\* last: when both have finished it is the result of one of the two, never
\* a mixture and never missing.
C27_StoreHoldsOneWholeResult ==
  /\ [](\A p \in Callers :
          Finished(p) =>
            /\ call[p].results.status \in { "completed", "completed_with_errors", "failed" }
            /\ call[p].results.file_path = call[p].file_path
            /\ call[p].results.file_id = RaceId
            /\ RaceId \in DOMAIN processed_files
            /\ (\A q \in Callers : Finished(q)) =>
                 \E q \in Callers : processed_files[RaceId] = call[q].results)
  /\ [][\A p \in Callers :
          /\ (call'[p] # call[p]) => \A q \in Callers \ { p } : call'[q] = call[q]
          /\ ( /\ InProcessReport(p)
               /\ call[p].pc \in { "final", "except" }
               /\ call'[p].pc = "returned" )
             => /\ processed_files' = Put(processed_files, RaceId, call'[p].results)
                /\ call'[p].results.timestamp = call[p].results.timestamp
          /\ ( /\ InProcessReport(p)
               /\ call[p].pc \notin { "final", "except" } )
             => processed_files' = processed_files \/ call'[p] = call[p]]_vars

\* both calls have finished with different results, c1 complete with its
\* certificate, c2 without text; the store holds the result of c2
C27_Witness ==
  /\ Finished("c1")
  /\ Finished("c2")
  /\ call["c1"].results.status = "completed"
  /\ call["c2"].results.status = "completed_with_errors"
  /\ processed_files[RaceId] = call["c2"].results
  /\ processed_files[RaceId] # call["c1"].results

(***************************************************************************)
(* The analysis step (pipeline.py:345-357 and 250-290), under Spec.        *)
(***************************************************************************)
\* the run of caller p is past its analysis stage
PastAnalysis(p) ==
  /\ InProcessReport(p)
  /\ Rank(call[p].pc) >= Rank("certificate")

\* C28: AI_ANALYSIS_FAILED is in no reachable result: whenever the step
\* 'ocr' is recorded and the run is past its analysis stage, the step
\* 'analysis' is recorded with a narrative that is not empty, whatever the
\* backends did (a completion, a short or empty one, or three exceptions).
C28_AnalysisNeverFails ==
  /\ \A file_id \in DOMAIN processed_files :
       "AI_ANALYSIS_FAILED" \notin Range(processed_files[file_id].errors)
  /\ \A p \in Callers :
       /\ InProcessReport(p) =>
            "AI_ANALYSIS_FAILED" \notin Range(call[p].results.errors)
       /\ (PastAnalysis(p) /\ "ocr" \in Range(call[p].results.steps_completed)) =>
            /\ "analysis" \in Range(call[p].results.steps_completed)
            /\ "explanation" \in DOMAIN call[p].results
            /\ Truthy(call[p].results.explanation)

\* a run with a key in which no backend gave an accepted completion has
\* returned: the narrative is the template and the analysis is recorded
C28_Witness ==
  /\ InProcessReport("c1")
  /\ call["c1"].pc = "returned"
  /\ GROQ_API_KEY = "gsk_default"
  /\ "analysis" \in Range(call["c1"].results.steps_completed)
  /\ call["c1"].results.explanation
       = generate_simple_fallback(Cleaned(call["c1"].extracted_text))

=============================================================================
